---- MODULE Spec2Model ----
(***************************************************************************)
(* A model of the time-tracking agent's event pipeline: the durable queue  *)
(* (internal/queue), the event collector (internal/collector), the URL     *)
(* store (internal/service/url_store.go), the trackers (internal/tracker)  *)
(* and the orchestrator (internal/service/tracking_service.go).            *)
(*                                                                         *)
(* Each subsystem has its own specification; the variables of the other    *)
(* subsystems stay at their initial values under it.                       *)
(***************************************************************************)
EXTENDS Integers, Sequences, FiniteSets, TLC

\* ------------------------------------------------------------------ bounds
\* The wall clock runs from 0 to MaxTime (one unit is one abstract period).
MaxTime == 1
\* Events handed to the orchestrator's sink over a run of the queue model.
MaxSunk == 2
\* Largest batch the sink receives in the queue model.
MaxBatch == 2
\* Failed drain sends over a run of the queue model.
MaxDrainFails == 1
\* Largest age passed to CleanupOldEvents in the queue model.
MaxOlderThan == 1
\* A backlog holds up to DrainLimit + MaxOverLimit rows.
MaxOverLimit == 1
\* Rows enqueued before a Dequeue call of the queue's client, and the largest
\* limit the client passes.
MaxHeld == 3
MaxLimit == 3

\* tracking.batch_size of the collector model.
BatchSize == 2
\* AddEvent calls over a run of the collector model.
MaxAdds == 3
\* Manual Flush calls over a run of the collector model.
MaxFlushes == 1

\* server.url_store_ttl of the URL store model, in clock units.
TTL == 1
\* The wall clock of the URL store model runs from 0 to MaxUrlTime.
MaxUrlTime == 3
\* Store calls over a run of the URL store model.
MaxStores == 2
\* Stop calls on the URL store over a run.
MaxUrlStops == 2

\* The wall clock of the orchestrator model runs from 0 to MaxSvcTime.
MaxSvcTime == 1
\* tracking.idle_threshold and tracking.away_threshold, in clock units.
IdleThreshold == 1
AwayThreshold == 2
\* Calls of StopActivityMonitoring, and hook procedures the OS runs, over a
\* run of the probe model.
MaxProbeStops == 2
\* requests the url-update handler serves in a run
MaxRequests == 2
MaxHookCalls == 2
\* Ticker rounds (checkWindow after the initial poll, checkState) and hook
\* events, taken together, over a run of the orchestrator model.
MaxRounds == 2

\* The wall clock of the activity model runs from 0 to MaxIdleTime.
MaxIdleTime == 2
\* Largest threshold, in clock units, the activity model is configured with.
MaxThreshold == 2
\* Checks of the state ticker and hook events, taken together, over a run of
\* the activity model.
MaxActivityRounds == 3

\* ---------------------------------------------------------- program values
\* retry_count > 10 in CleanupOldEvents' DELETE.
CleanupRetryLimit == 10
\* Dequeue(ts.deviceID, 100) in processQueue.
DrainLimit == 100
\* The orchestrator's own device id, and one left in the database file by an
\* earlier run under another configuration.
DeviceID == "dev1"
OtherDevice == "dev0"

VARIABLES
    now,          \* wall clock (time.Now())
    \* ---- durable queue and sink (SpecQueue)
    pending,      \* table pending_events: a set of rows
    nextId,       \* the table's AUTOINCREMENT counter
    nextEv,       \* history: identity of the next event handed to the sink
    sunk,         \* history: events handed to onBatchReady
    acked,        \* history: events of a batch the backend answered 2xx
    committed,    \* history: events committed to pending_events by an Enqueue
                  \* (of this run or of an earlier one)
    cleaned,      \* history: events of rows deleted by CleanupOldEvents
    drain,        \* the drain worker's position inside processQueue
    drainFails,   \* history: failed drain sends so far
    lastOp,       \* history: the operation of the last step and its outcome
    \* ---- event collector (SpecCollector)
    ecEvents,     \* ec.events, the buffer
    ecStopped,    \* ec.stopChan is closed
    loop,         \* autoFlushLoop: its position and the batch it holds
    client,       \* the goroutines calling AddEvent, Flush and Stop
    nextAdd,      \* history: identity of the next event passed to AddEvent
    flushCalls,   \* history: manual Flush calls so far
    calledInTime, \* history: events whose AddEvent call began before the
                  \* Stop that closed the channel returned
    batches,      \* history: the batches handed to onBatchReady, in order
    stopDone,     \* history: the Stop that closed the channel has returned
    \* ---- URL store (SpecURL)
    urls,         \* s.urls: key -> [url, ts]
    urlStopped,   \* s.stopChan is closed
    urlLoop,      \* cleanupLoop: "run" or "done"
    urlStopper,   \* the goroutine calling URLStore.Stop: "idle" or "wait"
    urlPanic,     \* a close of the closed s.stopChan has panicked
    lookup,       \* the goroutine calling Get / GetByApplicationAndTitle
    stores,       \* history: Store calls so far
    urlStops,     \* history: URLStore.Stop calls so far
    \* ---- trackers and orchestrator (SpecService)
    pc,           \* each goroutine's position
    loc,          \* each goroutine's locals
    ts,           \* the TrackingService's fields
    at,           \* the ActivityTracker's fields
    wt,           \* the WindowTracker's fields
    hooks,        \* the OS input hooks are installed
    rounds,       \* ticker rounds and hook events the run still has
    event,        \* the event createEvent built last: its window and URL
    boot,         \* main's progress through startup on the build's GOOS
    lk,           \* the goroutines at the grain of their mutexes: each one's
                  \* call stack, who holds which mutex, the closed channels
    probe,        \* windowsImpl's fields, the hooks the OS has installed,
                  \* and the calls made to the OS and to the sink
    hk,           \* the hook procedure the OS is running, and its locals
    reply,        \* the url-update handler's last request and its answer
    hist          \* history: the timestamp of the last event added to the
                  \* collector, the statuses of the state-change events
                  \* added to it, and Stop's milestones in order

queueVars == <<pending, nextId, nextEv, sunk, acked, committed, cleaned,
               drain, drainFails, lastOp>>

collectorVars == <<ecEvents, ecStopped, loop, client, nextAdd, flushCalls,
                   calledInTime, batches, stopDone>>

urlVars == <<urls, urlStopped, urlLoop, urlStopper, urlPanic, lookup, stores,
             urlStops>>

svcVars == <<pc, loc, ts, at, wt, hooks, rounds, hist>>

vars == <<now, queueVars, collectorVars, urlVars, svcVars, event, boot, lk, probe, hk, reply>>

\* What the steps of one subsystem leave alone. (The orchestrator's steps
\* work on the collector's buffer and stop channel.)
nonQueueVars == <<collectorVars, urlVars, svcVars, event, boot, lk, probe, hk, reply>>
nonCollectorVars == <<now, queueVars, urlVars, svcVars, event, boot, lk, probe, hk, reply>>
nonUrlVars == <<queueVars, collectorVars, svcVars, event, boot, lk, probe, hk, reply>>
nonSvcVars == <<queueVars, urlVars, loop, client, nextAdd, flushCalls,
                calledInTime, batches, stopDone, event, boot, lk, probe, hk, reply>>

\* ------------------------------------------------------------------ helpers
Range(s) == {s[i] : i \in 1..Len(s)}

\* The sequences that list every element of the finite set S exactly once.
Perms(S) == {s \in [1..Cardinality(S) -> S] : Range(s) = S}

Prefix(s, n) == SubSeq(s, 1, IF n < Len(s) THEN n ELSE Len(s))

\* ============================================================ backend client
\* What the POST can come back with: an HTTP status, or no response at all.
NoResponse == 0
Outcomes == {200, 204, 400, 401, 403, 429, 500, NoResponse}

\* Every status line a response can carry.
HttpStatuses == 100..599

\* APIClient.SendBatch: nil for 2xx, otherwise the error by its type:
\* "error" is the fmt.Errorf("request failed: %w", err) of a POST that got no
\* response, the others are *BadRequestError, *AuthError, *RateLimitError
\* and *BackendError.
SendBatch(outcome) ==
    IF outcome = NoResponse THEN "error"
    ELSE IF outcome >= 200 /\ outcome < 300 THEN "nil"
    ELSE IF outcome = 401 \/ outcome = 403 THEN "auth"
    ELSE IF outcome = 429 THEN "rate_limit"
    ELSE IF outcome = 400 THEN "bad_request"
    ELSE "backend"

\* ============================================================= durable queue
\* json.Marshal / json.Unmarshal of a TrackingEvent: the payload text carries
\* the event; text that is no JSON object of an event does not parse.
Marshal(ev) == [fmt |-> "json", ev |-> ev]
Unmarshals(data) == data.fmt = "json"
Unmarshal(data) == data.ev

NoTime == -1

Row(id, ev, dev, t, retry) ==
    [id |-> id, data |-> Marshal(ev), dev |-> dev, created |-> t,
     retry |-> retry, last |-> NoTime]

\* Rows an earlier run left in the database file: one whose payload no longer
\* parses as a TrackingEvent, one of another device id that was retried 11
\* times, and one of this device that was retried 10 times.
StaleRow ==
    [id |-> 1, data |-> [fmt |-> "corrupt", ev |-> 0], dev |-> DeviceID,
     created |-> 0, retry |-> 0, last |-> NoTime]
ForeignRow == Row(1, 101, OtherDevice, 0, CleanupRetryLimit + 1)
OldRow == Row(2, 102, DeviceID, 0, CleanupRetryLimit)

\* The faults the database can answer an Enqueue with.
DbFaults == {"none", "begin", "prepare", "commit"}

\* EventQueue.Enqueue: one transaction; every event but those whose INSERT
\* fails (execFail, positions in the batch) becomes a row with retry_count 0;
\* a failed Begin, Prepare or Commit leaves the table as it was.
RECURSIVE InsertAll(_, _, _, _, _, _, _)
InsertAll(rows, id, dev, events, i, execFail, t) ==
    IF i > Len(events) THEN [rows |-> rows, id |-> id]
    ELSE IF i \in execFail
         THEN InsertAll(rows, id, dev, events, i + 1, execFail, t)
         ELSE InsertAll(rows \cup {Row(id, events[i], dev, t, 0)}, id + 1, dev,
                        events, i + 1, execFail, t)

Enqueue(rows, id, dev, events, fault, execFail, t) ==
    IF fault \in {"begin", "prepare", "commit"}
    THEN [err |-> fault, rows |-> rows, id |-> id]
    ELSE LET r == InsertAll(rows, id, dev, events, 1, execFail, t)
         IN  [err |-> "nil", rows |-> r.rows, id |-> r.id]

\* SELECT ... WHERE device_id = ? ORDER BY created_at ASC LIMIT ?: every
\* order the engine may return the matching rows in (rows of equal created_at
\* come in any order), cut at the limit. The orders are built by splitting the
\* rows at a middle created_at.
RECURSIVE Ordered(_)
Ordered(rows) ==
    LET times == {r.created : r \in rows}
    IN  IF Cardinality(times) <= 1 THEN Perms(rows)
        ELSE LET mid == CHOOSE c \in times :
                            Cardinality({d \in times : d < c})
                                = Cardinality(times) \div 2
             IN  {a \o z : a \in Ordered({r \in rows : r.created < mid}),
                            z \in Ordered({r \in rows : r.created >= mid})}

Selected(rows, dev, limit) ==
    {Prefix(s, limit) : s \in Ordered({r \in rows : r.dev = dev})}

\* EventQueue.Dequeue on one such order: rows that do not deserialise are
\* deleted and skipped.
Dequeue(rows, sel) ==
    LET good == SelectSeq(sel, LAMBDA r : Unmarshals(r.data))
        bad  == {sel[i] : i \in {k \in 1..Len(sel) : ~Unmarshals(sel[k].data)}}
    IN  [events |-> [i \in 1..Len(good) |-> Unmarshal(good[i].data)],
         ids    |-> [i \in 1..Len(good) |-> good[i].id],
         rows   |-> rows \ bad]

\* Mutant: only the first id is deleted.
Remove_OnlyFirst(rows, ids) ==
    {r \in rows : Len(ids) = 0 \/ r.id # ids[1]}

\* EventQueue.Remove: DELETE ... WHERE id IN (ids).
Remove(rows, ids) == {r \in rows : r.id \notin Range(ids)}

\* Mutant: the UPDATE without its WHERE clause.
IncrementRetry_EveryRow(rows, ids, t) ==
    {[r EXCEPT !.retry = r.retry + 1, !.last = t] : r \in rows}

\* Mutant: the UPDATE adds 2 to retry_count.
IncrementRetry_ByTwo(rows, ids, t) ==
    {IF r.id \in Range(ids)
        THEN [r EXCEPT !.retry = r.retry + 2, !.last = t]
        ELSE r : r \in rows}

\* EventQueue.IncrementRetry: retry_count + 1 and last_attempt = now on ids.
IncrementRetry(rows, ids, t) ==
    {IF r.id \in Range(ids)
        THEN [r EXCEPT !.retry = r.retry + 1, !.last = t]
        ELSE r : r \in rows}

\* EventQueue.GetPendingCount.
GetPendingCount(rows, dev) == Cardinality({r \in rows : r.dev = dev})

\* Mutant: rows with retry_count exactly 10 are deleted too.
CleanupOldEvents_AtLimit(rows, olderThan, t) ==
    {r \in rows : ~(r.created < t - olderThan /\ r.retry >= CleanupRetryLimit)}

\* EventQueue.CleanupOldEvents: created_at < now - olderThan AND
\* retry_count > 10.
CleanupOldEvents(rows, olderThan, t) ==
    {r \in rows : ~(r.created < t - olderThan /\ r.retry > CleanupRetryLimit)}

RowEvents(rows) == {Unmarshal(r.data) : r \in {x \in rows : Unmarshals(x.data)}}

\* --------------------------------------------------------------- queue: Init
Op(name) == [op |-> name, events |-> {}, err |-> "nil", enq |-> "nil",
             skipped |-> {}, olderThan |-> 0, status |-> NoResponse]
\* The drain worker between two cycles; inside one it holds processQueue's
\* pendingCount, ids and events. deleted is history: the DELETE statements
\* Dequeue executed for rows that did not deserialise.
DrainIdle ==
    [pc |-> "idle", count |-> 0, ids |-> <<>>, events |-> <<>>, deleted |-> 0]

\* The rows of sel for which Dequeue's json.Unmarshal fails.
Undecodable(sel) == {i \in 1..Len(sel) : ~Unmarshals(sel[i].data)}

\* The queue of a fresh run: no row, or the rows an earlier run left.
QueueLeftovers == {{}, {StaleRow}, {ForeignRow, OldRow}}

QueueIdle ==
    /\ nextId = 3
    /\ nextEv = 1
    /\ sunk = {}
    /\ acked = {}
    /\ committed = RowEvents(pending)
    /\ cleaned = {}
    /\ drain = DrainIdle
    /\ drainFails = 0
    /\ lastOp = Op("init")

\* ------------------------------------------------------------ queue: actions
\* TrackingService.onBatchReady on a batch: nothing for an empty one; send;
\* on any error enqueue the whole batch; an Enqueue error is logged and the
\* batch is dropped.
\* Mutant: a batch the backend rejected with 400 is dropped, not queued.
OnBatchReadyQueue_DropsBadRequest(rows, id, events, outcome, fault, execFail, t) ==
    LET err == IF Len(events) = 0 THEN "nil" ELSE SendBatch(outcome)
    IN  IF err = "nil" \/ err = "bad_request"
        THEN [err |-> err, enq |-> "nil", rows |-> rows, id |-> id]
        ELSE LET q == Enqueue(rows, id, DeviceID, events, fault, execFail, t)
             IN  [err |-> err, enq |-> q.err, rows |-> q.rows, id |-> q.id]

\* Mutant: a batch the backend answered with 429 is dropped, not queued.
OnBatchReadyQueue_DropsRateLimited(rows, id, events, outcome, fault, execFail, t) ==
    LET err == IF Len(events) = 0 THEN "nil" ELSE SendBatch(outcome)
    IN  IF err = "nil" \/ err = "rate_limit"
        THEN [err |-> err, enq |-> "nil", rows |-> rows, id |-> id]
        ELSE LET q == Enqueue(rows, id, DeviceID, events, fault, execFail, t)
             IN  [err |-> err, enq |-> q.err, rows |-> q.rows, id |-> q.id]

OnBatchReadyQueue(rows, id, events, outcome, fault, execFail, t) ==
    LET err == IF Len(events) = 0 THEN "nil" ELSE SendBatch(outcome)
    IN  IF err = "nil"
        THEN [err |-> err, enq |-> "nil", rows |-> rows, id |-> id]
        ELSE LET q == Enqueue(rows, id, DeviceID, events, fault, execFail, t)
             IN  [err |-> err, enq |-> q.err, rows |-> q.rows, id |-> q.id]

OnBatchReady ==
    \E k \in 1..MaxBatch, outcome \in Outcomes, fault \in DbFaults :
    \E execFail \in SUBSET (1..k) :
        /\ nextEv + k - 1 <= MaxSunk
        /\ LET events == [i \in 1..k |-> nextEv + i - 1]
               r == OnBatchReadyQueue(pending, nextId, events, outcome, fault,
                                      execFail, now)
           IN  /\ sunk' = sunk \cup Range(events)
               /\ nextEv' = nextEv + k
               /\ acked' = IF r.err = "nil" THEN acked \cup Range(events)
                           ELSE acked
               /\ pending' = r.rows
               /\ nextId' = r.id
               /\ committed' = committed \cup
                               (RowEvents(r.rows) \ RowEvents(pending))
               /\ lastOp' = [op |-> "sink", events |-> Range(events),
                             err |-> r.err, enq |-> r.enq,
                             skipped |-> IF r.err = "nil" \/ r.enq # "nil"
                                         THEN {}
                                         ELSE {events[i] : i \in execFail},
                             olderThan |-> 0, status |-> NoResponse]
        /\ UNCHANGED <<now, cleaned, drain, drainFails>>
        /\ UNCHANGED nonQueueVars

\* A caller of APIClient.SendBatch with a batch that is not empty: the POST
\* comes back with a status, or with none.
SendCall(outcome) ==
    /\ lastOp' = [Op("SendBatch") EXCEPT !.status = outcome,
                                         !.err = SendBatch(outcome)]
    /\ UNCHANGED <<now, pending, nextId, nextEv, sunk, acked, committed,
                   cleaned, drain, drainFails>>
    /\ UNCHANGED nonQueueVars

\* processQueue, first half: read the pending count, return if it is zero,
\* dequeue up to DrainLimit rows, return if none deserialised.
DrainDequeue ==
    /\ drain.pc = "idle"
    /\ IF GetPendingCount(pending, DeviceID) = 0
       THEN UNCHANGED <<pending, drain>>
       ELSE \E sel \in Selected(pending, DeviceID, DrainLimit) :
               LET d == Dequeue(pending, sel)
               IN  /\ pending' = d.rows
                   /\ drain' = IF Len(d.events) = 0 THEN DrainIdle
                               ELSE [pc |-> "send",
                                     count |-> GetPendingCount(pending,
                                                               DeviceID),
                                     ids |-> d.ids, events |-> d.events,
                                     deleted |->
                                         Cardinality(Undecodable(sel))]
    /\ lastOp' = Op("dequeue")
    /\ UNCHANGED <<now, nextId, nextEv, sunk, acked, committed, cleaned,
                   drainFails>>
    /\ UNCHANGED nonQueueVars

\* Mutant: the rows of a failed drain send are removed.
DrainFailUpdate_Removes(rows, ids, t) == Remove(rows, ids)

\* Mutant: a failed drain send re-stamps the rows it retried.
DrainFailUpdate_Restamps(rows, ids, t) ==
    {IF r.id \in Range(ids)
        THEN [r EXCEPT !.retry = r.retry + 1, !.last = t, !.created = t]
        ELSE r : r \in rows}

\* processQueue, second half, the send failed: IncrementRetry(ids).
DrainFailUpdate(rows, ids, t) == IncrementRetry(rows, ids, t)

\* Mutant: the first dequeued row is left in the table.
DrainOkUpdate_KeepsFirst(rows, ids) == Remove(rows, Tail(ids))

\* processQueue, second half, the send succeeded: Remove(ids).
DrainOkUpdate(rows, ids) == Remove(rows, ids)

DrainSend ==
    /\ drain.pc = "send"
    /\ \E outcome \in Outcomes :
        LET err == SendBatch(outcome)
        IN  /\ IF err = "nil"
               THEN /\ acked' = acked \cup Range(drain.events)
                    /\ pending' = DrainOkUpdate(pending, drain.ids)
                    /\ UNCHANGED drainFails
               ELSE /\ drainFails < MaxDrainFails
                    /\ drainFails' = drainFails + 1
                    /\ pending' = DrainFailUpdate(pending, drain.ids, now)
                    /\ UNCHANGED acked
            /\ lastOp' = [Op("send") EXCEPT !.err = err]
    /\ drain' = DrainIdle
    /\ UNCHANGED <<now, nextId, nextEv, sunk, committed, cleaned>>
    /\ UNCHANGED nonQueueVars

\* processQueue, second half, where the send failed and IncrementRetry's
\* UPDATE returned an error too: the error is logged and the table is as it
\* was.
DrainSendRetryError ==
    /\ drain.pc = "send"
    /\ drainFails < MaxDrainFails
    /\ \E outcome \in Outcomes :
           /\ SendBatch(outcome) # "nil"
           /\ lastOp' = [Op("send") EXCEPT !.err = SendBatch(outcome)]
    /\ drainFails' = drainFails + 1
    /\ drain' = DrainIdle
    /\ UNCHANGED <<now, pending, nextId, nextEv, sunk, acked, committed,
                   cleaned>>
    /\ UNCHANGED nonQueueVars

\* CleanupOldEvents(olderThan), as main runs it at shutdown.
Cleanup ==
    \E olderThan \in 0..MaxOlderThan :
        LET post == CleanupOldEvents(pending, olderThan, now)
        IN  /\ pending' = post
            /\ cleaned' = cleaned \cup RowEvents(pending \ post)
            /\ lastOp' = [Op("cleanup") EXCEPT !.olderThan = olderThan]
    /\ UNCHANGED <<now, nextId, nextEv, sunk, acked, committed, drain,
                   drainFails>>
    /\ UNCHANGED nonQueueVars

TickQueue ==
    /\ now < MaxTime
    /\ now' = now + 1
    /\ lastOp' = Op("tick")
    /\ UNCHANGED <<pending, nextId, nextEv, sunk, acked, committed, cleaned,
                   drain, drainFails>>
    /\ UNCHANGED nonQueueVars

\* ---- the queue's client: Dequeue(device, limit), then Remove(ids)
\* The tables a client may find: what an earlier run left, and up to MaxHeld
\* rows enqueued since, each at some time.
QueuesHeld ==
    {l \cup {Row(2 + i, i, DeviceID, c[i], 0) : i \in 1..n} :
        l \in QueueLeftovers, n \in 0..MaxHeld,
        c \in [1..MaxHeld -> 0..MaxTime]}

\* EventQueue.Dequeue(deviceID, limit), called with any limit.
DequeueCall ==
    /\ drain.pc \in {"idle", "removed"}
    /\ \E limit \in 0..MaxLimit :
       \E sel \in Selected(pending, DeviceID, limit) :
           LET d == Dequeue(pending, sel)
           IN  /\ pending' = d.rows
               /\ drain' = [pc |-> "dequeued",
                            count |-> GetPendingCount(pending, DeviceID),
                            ids |-> d.ids, events |-> d.events,
                            deleted |-> Cardinality(Undecodable(sel))]
    /\ lastOp' = Op("dequeue")
    /\ UNCHANGED <<now, nextId, nextEv, sunk, acked, committed, cleaned,
                   drainFails>>
    /\ UNCHANGED nonQueueVars

\* EventQueue.Remove(ids) on the ids the Dequeue returned.
RemoveCall ==
    /\ drain.pc = "dequeued"
    /\ pending' = Remove(pending, drain.ids)
    /\ drain' = [drain EXCEPT !.pc = "removed"]
    /\ lastOp' = Op("remove")
    /\ UNCHANGED <<now, nextId, nextEv, sunk, acked, committed, cleaned,
                   drainFails>>
    /\ UNCHANGED nonQueueVars

\* ---- a backlog
\* The queue after a period in which every send failed: n rows of this
\* device, enqueued one per clock unit from 1 to n.
Backlog(n) == {Row(i, i, DeviceID, i, 0) : i \in 1..n}

BacklogSizes == 0..(DrainLimit + MaxOverLimit)

BacklogIdle(n) ==
    /\ now = DrainLimit + MaxOverLimit
    /\ pending = Backlog(n)
    /\ nextId = n + 1
    /\ nextEv = n + 1
    /\ sunk = RowEvents(pending)
    /\ acked = {}
    /\ committed = RowEvents(pending)
    /\ cleaned = {}
    /\ drain = DrainIdle
    /\ drainFails = 0
    /\ lastOp = Op("init")

\* =========================================================== event collector
Clients == {"c1", "c2"}

ClientIdle == [pc |-> "idle", ev |-> 0, taken |-> <<>>]
LoopAt(p, taken) == [pc |-> p, taken |-> taken]

\* The collector after NewEventCollector and Start: an empty buffer, the
\* stop channel open, autoFlushLoop at its select, no caller inside.
CollectorIdle ==
    /\ ecEvents = <<>>
    /\ ecStopped = FALSE
    /\ loop = LoopAt("select", <<>>)
    /\ client = [c \in Clients |-> ClientIdle]
    /\ nextAdd = 1
    /\ flushCalls = 0
    /\ calledInTime = {}
    /\ batches = <<>>
    /\ stopDone = FALSE

\* Mutant: the buffer is copied out at batchSize but not emptied.
AddLocked_KeepsBuffer(buf, e, size) ==
    LET b == Append(buf, e)
    IN  IF Len(b) >= size THEN [buf |-> b, flush |-> TRUE, taken |-> b]
        ELSE [buf |-> b, flush |-> FALSE, taken |-> <<>>]

\* AddEvent under ec.mu: append; at batchSize or more copy the buffer out and
\* empty it.
AddLocked(buf, e, size) ==
    LET b == Append(buf, e)
    IN  IF Len(b) >= size THEN [buf |-> <<>>, flush |-> TRUE, taken |-> b]
        ELSE [buf |-> b, flush |-> FALSE, taken |-> <<>>]

\* Mutant: Flush hands over the buffer without looking at its length.
FlushLocked_AlwaysFlushes(buf) == [buf |-> <<>>, flush |-> TRUE, taken |-> buf]

\* Flush (and Stop's residue drain) under ec.mu: nothing for an empty buffer,
\* else copy the buffer out and empty it.
FlushLocked(buf) ==
    IF Len(buf) = 0 THEN [buf |-> buf, flush |-> FALSE, taken |-> <<>>]
    ELSE [buf |-> <<>>, flush |-> TRUE, taken |-> buf]

\* ec.onBatchReady(events) as the collector sees it: the batch is handed over.
Deliver(bs, taken) == Append(bs, taken)

\* How often event e was handed to the callback.
RECURSIVE Count(_, _)
Count(bs, e) ==
    IF bs = <<>> THEN 0
    ELSE Cardinality({i \in 1..Len(Head(bs)) : Head(bs)[i] = e})
         + Count(Tail(bs), e)

\* A caller enters AddEvent with a new event.
AddCall(c) ==
    /\ client[c].pc = "idle"
    /\ nextAdd <= MaxAdds
    /\ client' = [client EXCEPT ![c] = [ClientIdle EXCEPT !.pc = "add",
                                                         !.ev = nextAdd]]
    /\ nextAdd' = nextAdd + 1
    /\ calledInTime' = IF stopDone THEN calledInTime
                       ELSE calledInTime \cup {nextAdd}
    /\ UNCHANGED <<ecEvents, ecStopped, loop, flushCalls, batches, stopDone>>
    /\ UNCHANGED nonCollectorVars

\* AddEvent's critical section.
AddAppend(c) ==
    /\ client[c].pc = "add"
    /\ LET r == AddLocked(ecEvents, client[c].ev, BatchSize)
       IN  /\ ecEvents' = r.buf
           /\ client' = [client EXCEPT ![c] =
                            IF r.flush
                            THEN [@ EXCEPT !.pc = "add_cb", !.taken = r.taken]
                            ELSE ClientIdle]
    /\ UNCHANGED <<ecStopped, loop, nextAdd, flushCalls, calledInTime, batches,
                   stopDone>>
    /\ UNCHANGED nonCollectorVars

\* AddEvent and Flush, after the lock is released: the callback.
Callback(c) ==
    /\ client[c].pc \in {"add_cb", "flush_cb"}
    /\ batches' = Deliver(batches, client[c].taken)
    /\ client' = [client EXCEPT ![c] = ClientIdle]
    /\ UNCHANGED <<ecEvents, ecStopped, loop, nextAdd, flushCalls, calledInTime,
                   stopDone>>
    /\ UNCHANGED nonCollectorVars

\* A manual Flush: its critical section.
FlushCall(c) ==
    /\ client[c].pc = "idle"
    /\ flushCalls < MaxFlushes
    /\ flushCalls' = flushCalls + 1
    /\ LET r == FlushLocked(ecEvents)
       IN  /\ ecEvents' = r.buf
           /\ client' = [client EXCEPT ![c] =
                            IF r.flush
                            THEN [@ EXCEPT !.pc = "flush_cb", !.taken = r.taken]
                            ELSE ClientIdle]
    /\ UNCHANGED <<ecStopped, loop, nextAdd, calledInTime, batches, stopDone>>
    /\ UNCHANGED nonCollectorVars

\* autoFlushLoop's select takes the ticker: Flush's critical section.
LoopTick ==
    /\ loop.pc = "select"
    /\ LET r == FlushLocked(ecEvents)
       IN  /\ ecEvents' = r.buf
           /\ loop' = IF r.flush THEN LoopAt("flush_cb", r.taken) ELSE loop
    /\ UNCHANGED <<ecStopped, client, nextAdd, flushCalls, calledInTime,
                   batches, stopDone>>
    /\ UNCHANGED nonCollectorVars

\* autoFlushLoop's Flush, after the lock is released: the callback.
LoopCallback ==
    /\ loop.pc = "flush_cb"
    /\ batches' = Deliver(batches, loop.taken)
    /\ loop' = LoopAt("select", <<>>)
    /\ UNCHANGED <<ecEvents, ecStopped, client, nextAdd, flushCalls,
                   calledInTime, stopDone>>
    /\ UNCHANGED nonCollectorVars

\* autoFlushLoop's select takes the closed stop channel: return, wg.Done.
LoopExit ==
    /\ loop.pc = "select"
    /\ ecStopped
    /\ loop' = LoopAt("exited", <<>>)
    /\ UNCHANGED <<ecEvents, ecStopped, client, nextAdd, flushCalls,
                   calledInTime, batches, stopDone>>
    /\ UNCHANGED nonCollectorVars

\* Stop's first critical section: return if the channel is closed, else
\* close it.
StopClose(c) ==
    /\ client[c].pc = "idle"
    /\ IF ecStopped
       THEN UNCHANGED <<ecStopped, client>>
       ELSE /\ ecStopped' = TRUE
            /\ client' = [client EXCEPT ![c] =
                             [ClientIdle EXCEPT !.pc = "stop_wait"]]
    /\ UNCHANGED <<ecEvents, loop, nextAdd, flushCalls, calledInTime, batches,
                   stopDone>>
    /\ UNCHANGED nonCollectorVars

\* Stop: ec.wg.Wait() returns once autoFlushLoop has, then the residue is
\* taken under the lock.
StopDrain(c) ==
    /\ client[c].pc = "stop_wait"
    /\ loop.pc = "exited"
    /\ LET r == FlushLocked(ecEvents)
       IN  /\ ecEvents' = r.buf
           /\ client' = [client EXCEPT ![c] =
                            IF r.flush
                            THEN [@ EXCEPT !.pc = "stop_cb", !.taken = r.taken]
                            ELSE ClientIdle]
           /\ stopDone' = ~r.flush
    /\ UNCHANGED <<ecStopped, loop, nextAdd, flushCalls, calledInTime, batches>>
    /\ UNCHANGED nonCollectorVars

\* Stop: the residue goes to the callback, and Stop returns.
StopCallback(c) ==
    /\ client[c].pc = "stop_cb"
    /\ batches' = Deliver(batches, client[c].taken)
    /\ client' = [client EXCEPT ![c] = ClientIdle]
    /\ stopDone' = TRUE
    /\ UNCHANGED <<ecEvents, ecStopped, loop, nextAdd, flushCalls, calledInTime>>
    /\ UNCHANGED nonCollectorVars

\* ================================================================ URL store
\* Strings are sequences of characters.
LowerChar(c) ==
    CASE c = "A" -> "a" []
    c = "B" -> "b" []
    c = "C" -> "c" []
    c = "D" -> "d" []
    c = "E" -> "e" []
    c = "F" -> "f" []
    c = "G" -> "g" []
    c = "H" -> "h" []
    c = "I" -> "i" []
    c = "J" -> "j" []
    c = "K" -> "k" []
    c = "L" -> "l" []
    c = "M" -> "m" []
    c = "N" -> "n" []
    c = "O" -> "o" []
    c = "P" -> "p" []
    c = "Q" -> "q" []
    c = "R" -> "r" []
    c = "S" -> "s" []
    c = "T" -> "t" []
    c = "U" -> "u" []
    c = "V" -> "v" []
    c = "W" -> "w" []
    c = "X" -> "x" []
    c = "Y" -> "y" []
    c = "Z" -> "z" []
    OTHER -> c

\* strings.ToLower
ToLower(str) == [i \in 1..Len(str) |-> LowerChar(str[i])]

\* strings.HasPrefix, strings.HasSuffix, strings.Contains
HasPrefix(str, pre) ==
    Len(pre) <= Len(str) /\ SubSeq(str, 1, Len(pre)) = pre
HasSuffix(str, suf) ==
    Len(suf) <= Len(str) /\ SubSeq(str, Len(str) - Len(suf) + 1, Len(str)) = suf
Contains(str, sub) ==
    \E i \in 0..(Len(str) - Len(sub)) : SubSeq(str, i + 1, i + Len(sub)) = sub

\* strings.TrimPrefix, strings.TrimSuffix
TrimPrefix(str, pre) ==
    IF HasPrefix(str, pre) THEN SubSeq(str, Len(pre) + 1, Len(str)) ELSE str
TrimSuffix(str, suf) ==
    IF HasSuffix(str, suf) THEN SubSeq(str, 1, Len(str) - Len(suf)) ELSE str

\* strings.TrimSpace
RECURSIVE TrimLeft(_)
TrimLeft(str) ==
    IF str # <<>> /\ Head(str) = " " THEN TrimLeft(Tail(str)) ELSE str
RECURSIVE TrimRight(_)
TrimRight(str) ==
    IF str # <<>> /\ str[Len(str)] = " "
    THEN TrimRight(SubSeq(str, 1, Len(str) - 1)) ELSE str
TrimSpace(str) == TrimRight(TrimLeft(str))

\* normalizeTitle's browserSuffixes, in the order the loop visits them.
BrowserSuffixes == <<
    <<" ", "-", " ", "G", "o", "o", "g", "l", "e", " ", "C", "h", "r", "o", "m", "e">>,
    <<" ", "-", " ", "C", "h", "r", "o", "m", "e">>,
    <<" ", "-", " ", "M", "i", "c", "r", "o", "s", "o", "f", "t", " ", "E", "d", "g", "e">>,
    <<" ", "-", " ", "E", "d", "g", "e">>,
    <<" ", "-", " ", "M", "o", "z", "i", "l", "l", "a", " ", "F", "i", "r", "e", "f", "o", "x">>,
    <<" ", "-", " ", "F", "i", "r", "e", "f", "o", "x">>,
    <<" ", "-", " ", "S", "a", "f", "a", "r", "i">>,
    <<" ", "-", " ", "O", "p", "e", "r", "a">>,
    <<" ", "-", " ", "B", "r", "a", "v", "e">>,
    <<" ", "-", " ", "V", "i", "v", "a", "l", "d", "i">> >>

\* normalizeTitle: trim, then for each suffix in turn strip it and trim again.
RECURSIVE StripSuffixes(_, _)
StripSuffixes(title, i) ==
    IF i > Len(BrowserSuffixes) THEN title
    ELSE IF HasSuffix(title, BrowserSuffixes[i])
         THEN StripSuffixes(TrimSpace(TrimSuffix(title, BrowserSuffixes[i])), i + 1)
         ELSE StripSuffixes(title, i + 1)

NormalizeTitle(title) == StripSuffixes(TrimSpace(title), 1)

\* normalizeApplicationName's browserMap: <<key, normalized>>.
BrowserMap == {
    <<<<"c", "h", "r", "o", "m", "e">>, <<"c", "h", "r", "o", "m", "e">>>>,
    <<<<"g", "o", "o", "g", "l", "e", " ", "c", "h", "r", "o", "m", "e">>, <<"c", "h", "r", "o", "m", "e">>>>,
    <<<<"c", "h", "r", "o", "m", "i", "u", "m">>, <<"c", "h", "r", "o", "m", "e">>>>,
    <<<<"f", "i", "r", "e", "f", "o", "x">>, <<"f", "i", "r", "e", "f", "o", "x">>>>,
    <<<<"m", "o", "z", "i", "l", "l", "a", " ", "f", "i", "r", "e", "f", "o", "x">>, <<"f", "i", "r", "e", "f", "o", "x">>>>,
    <<<<"e", "d", "g", "e">>, <<"e", "d", "g", "e">>>>,
    <<<<"m", "i", "c", "r", "o", "s", "o", "f", "t", " ", "e", "d", "g", "e">>, <<"e", "d", "g", "e">>>>,
    <<<<"s", "a", "f", "a", "r", "i">>, <<"s", "a", "f", "a", "r", "i">>>>,
    <<<<"o", "p", "e", "r", "a">>, <<"o", "p", "e", "r", "a">>>>,
    <<<<"b", "r", "a", "v", "e">>, <<"b", "r", "a", "v", "e">>>>,
    <<<<"v", "i", "v", "a", "l", "d", "i">>, <<"v", "i", "v", "a", "l", "d", "i">>>> }

\* normalizeApplicationName: the normalized name of a key the lowercased name
\* contains, whichever key the map iteration meets first; else the lowercased
\* name.
NormalizeApplicationName(application) ==
    LET appLower == ToLower(application)
        hits == {m[2] : m \in {x \in BrowserMap : Contains(appLower, x[1])}}
    IN  IF hits = {} THEN {appLower} ELSE hits

\* makeKey: normalizedApp + ":" + title.
MakeKey(normalizedApp, title) == normalizedApp \o <<":">> \o title

\* Mutant: an entry expires one unit later than the TTL.
Expired_OneLate(info, t, ttl) == t - info.ts > ttl + 1

\* An entry is expired when time.Since(info.Timestamp) > s.ttl.
Expired(info, t, ttl) == t - info.ts > ttl

\* Store: insert or overwrite with the current time.
Store(m, key, u, t) ==
    [k \in DOMAIN m \cup {key} |->
        IF k = key THEN [url |-> u, ts |-> t] ELSE m[k]]

Miss == [found |-> FALSE, url |-> 0, ts |-> 0]
Hit(info) == [found |-> TRUE, url |-> info.url, ts |-> info.ts]

\* Get: the entry of the key, if there is one and it has not expired.
Get(m, key, t, ttl) ==
    IF key \notin DOMAIN m THEN Miss
    ELSE IF Expired(m[key], t, ttl) THEN Miss
    ELSE Hit(m[key])

\* GetByApplicationAndTitle's scan: the entries it may return, which are the
\* unexpired ones under normalizedApp + ":" whose normalized title equals,
\* contains or is contained in the normalized query title; the map iteration
\* returns the first it meets.
FuzzyMatches(m, normalizedApp, title, t, ttl) ==
    LET fuzzyTitle == NormalizeTitle(title)
        pre == normalizedApp \o <<":">>
    IN  {k \in DOMAIN m :
            /\ ~Expired(m[k], t, ttl)
            /\ HasPrefix(k, pre)
            /\ LET stored == NormalizeTitle(TrimPrefix(k, pre))
               IN  \/ stored = fuzzyTitle
                   \/ Contains(stored, fuzzyTitle)
                   \/ Contains(fuzzyTitle, stored)}

FuzzyResults(m, normalizedApp, title, t, ttl) ==
    LET ks == FuzzyMatches(m, normalizedApp, title, t, ttl)
    IN  IF ks = {} THEN {Miss} ELSE {Hit(m[k]) : k \in ks}

\* cleanup: delete the expired entries.
Sweep(m, t, ttl) ==
    [k \in {x \in DOMAIN m : ~Expired(m[x], t, ttl)} |-> m[k]]

\* ---- inputs of the URL store model
Applications == {<<"C", "h", "r", "o", "m", "e">>, <<"v", "i", "m">>}
Titles == {<<>>, <<"A">>, <<"A", " ", "-", " ", "C", "h", "r", "o", "m", "e">>}
\* An application name that contains the keys of two browsers.
BrowserNames ==
    {<<"E", "d", "g", "e", " ", "C", "h", "r", "o", "m", "i", "u", "m">>}
\* The applications of BrowserNames that can have written the key.
Storers(key) ==
    {a \in BrowserNames :
        \E n \in NormalizeApplicationName(a) : HasPrefix(key, n \o <<":">>)}
\* The tags of browserMap.
BrowserTags == {m[2] : m \in BrowserMap}
\* The n-th Store call of a run stores the URL n.
Urls == 1..MaxStores

\* A lookup: the application and title it was called with, the normalized
\* application, the result and, as history, the time it returned at.
LookupIdle ==
    [pc |-> "idle", op |-> "", application |-> <<>>, app |-> <<>>,
     title |-> <<>>, res |-> Miss, at |-> 0]

UrlIdle ==
    /\ urls = <<>>
    /\ urlStopped = FALSE
    /\ urlLoop = "run"
    /\ urlStopper = "idle"
    /\ urlPanic = FALSE
    /\ lookup = LookupIdle
    /\ stores = 0
    /\ urlStops = 0

\* StoreByApplicationAndTitle: Store under makeKey(application, title).
StoreByApplicationAndTitle(application, title, u) ==
    /\ ~urlPanic
    /\ stores < MaxStores
    /\ u = stores + 1
    /\ \E napp \in NormalizeApplicationName(application) :
           urls' = Store(urls, MakeKey(napp, title), u, now)
    /\ stores' = stores + 1
    /\ UNCHANGED <<now, urlStopped, urlLoop, urlStopper, urlPanic, lookup,
                   urlStops>>
    /\ UNCHANGED nonUrlVars

\* Get(key), called directly.
UrlGet(key) ==
    /\ ~urlPanic
    /\ lookup.pc # "fuzzy"
    /\ lookup' = [pc |-> "done", op |-> "Get", application |-> <<>>,
                  app |-> <<>>, title |-> key,
                  res |-> Get(urls, key, now, TTL), at |-> now]
    /\ UNCHANGED <<now, urls, urlStopped, urlLoop, urlStopper, urlPanic,
                   stores, urlStops>>
    /\ UNCHANGED nonUrlVars

\* GetByApplicationAndTitle up to the return of its exact Get: a hit returns,
\* a miss goes on to the scan.
LookupExact(application, title) ==
    /\ ~urlPanic
    /\ lookup.pc # "fuzzy"
    /\ \E napp \in NormalizeApplicationName(application) :
           LET r == Get(urls, MakeKey(napp, title), now, TTL)
           IN  lookup' = [pc |-> IF r.found THEN "done" ELSE "fuzzy",
                          op |-> "GetByApplicationAndTitle",
                          application |-> application, app |-> napp,
                          title |-> title, res |-> r, at |-> now]
    /\ UNCHANGED <<now, urls, urlStopped, urlLoop, urlStopper, urlPanic,
                   stores, urlStops>>
    /\ UNCHANGED nonUrlVars

\* GetByApplicationAndTitle's scan under the read lock.
LookupFuzzy ==
    /\ ~urlPanic
    /\ lookup.pc = "fuzzy"
    /\ \E r \in FuzzyResults(urls, lookup.app, lookup.title, now, TTL) :
           lookup' = [lookup EXCEPT !.pc = "done", !.res = r, !.at = now]
    /\ UNCHANGED <<now, urls, urlStopped, urlLoop, urlStopper, urlPanic,
                   stores, urlStops>>
    /\ UNCHANGED nonUrlVars

\* cleanupLoop, case <-ticker.C: cleanup().
UrlLoopCleanup ==
    /\ ~urlPanic
    /\ urlLoop = "run"
    /\ urls' = Sweep(urls, now, TTL)
    /\ UNCHANGED <<now, urlStopped, urlLoop, urlStopper, urlPanic, lookup,
                   stores, urlStops>>
    /\ UNCHANGED nonUrlVars

\* cleanupLoop, case <-s.stopChan: return (cleanupWg.Done).
UrlLoopExit ==
    /\ ~urlPanic
    /\ urlLoop = "run"
    /\ urlStopped
    /\ urlLoop' = "done"
    /\ UNCHANGED <<now, urls, urlStopped, urlStopper, urlPanic, lookup,
                   stores, urlStops>>
    /\ UNCHANGED nonUrlVars

\* URLStore.Stop, close(s.stopChan): closing a closed channel panics.
UrlStopClose ==
    /\ ~urlPanic
    /\ urlStopper = "idle"
    /\ urlStops < MaxUrlStops
    /\ urlStops' = urlStops + 1
    /\ IF urlStopped
       THEN urlPanic' = TRUE /\ UNCHANGED <<urlStopped, urlStopper>>
       ELSE urlStopped' = TRUE /\ urlStopper' = "wait" /\ UNCHANGED urlPanic
    /\ UNCHANGED <<now, urls, urlLoop, lookup, stores>>
    /\ UNCHANGED nonUrlVars

\* URLStore.Stop, s.cleanupWg.Wait() returns.
UrlStopReturn ==
    /\ ~urlPanic
    /\ urlStopper = "wait"
    /\ urlLoop = "done"
    /\ urlStopper' = "idle"
    /\ UNCHANGED <<now, urls, urlStopped, urlLoop, urlPanic, lookup, stores,
                   urlStops>>
    /\ UNCHANGED nonUrlVars

\* The wall clock advances.
TickUrl ==
    /\ ~urlPanic
    /\ now < MaxUrlTime
    /\ now' = now + 1
    /\ UNCHANGED urlVars
    /\ UNCHANGED nonUrlVars

\* ============================================================ URL enrichment
\* Character classes of the title parser's regular expressions.
Letters == {
    "a", "b", "c", "d", "e", "f", "g", "h", "i", "j", "k", "l", "m", "n",
    "o", "p", "q", "r", "s", "t", "u", "v", "w", "x", "y", "z", "A", "B",
    "C", "D", "E", "F", "G", "H", "I", "J", "K", "L", "M", "N", "O", "P",
    "Q", "R", "S", "T", "U", "V", "W", "X", "Y", "Z" }
Digits == {"0", "1", "2", "3", "4", "5", "6", "7", "8", "9"}
\* [a-zA-Z0-9.-]
HostChars == Letters \cup Digits \cup {".", "-"}
\* \w and \s
WordChars == Letters \cup Digits \cup {"_"}
SpaceChars == {" ", "\t", "\n", "\f", "\r"}

\* sub begins at position i of str.
HasPrefixAt(str, i, sub) ==
    i + Len(sub) - 1 <= Len(str) /\ SubSeq(str, i, i + Len(sub) - 1) = sub

\* strings.Index, counting from 1; 0 if sub does not occur.
Index(str, sub) ==
    LET hits == {i \in 1..Len(str) : HasPrefixAt(str, i, sub)}
    IN  IF hits = {} THEN 0 ELSE CHOOSE i \in hits : \A j \in hits : i <= j

\* strings.Split on a separator that is not empty.
RECURSIVE Split(_, _)
Split(str, sep) ==
    LET i == Index(str, sep)
    IN  IF i = 0 THEN <<str>>
        ELSE <<SubSeq(str, 1, i - 1)>>
                 \o Split(SubSeq(str, i + Len(sep), Len(str)), sep)

\* strings.ReplaceAll for an old that is not empty.
RECURSIVE ReplaceAll(_, _, _)
ReplaceAll(str, old, new) ==
    LET i == Index(str, old)
    IN  IF i = 0 THEN str
        ELSE SubSeq(str, 1, i - 1) \o new
                 \o ReplaceAll(SubSeq(str, i + Len(old), Len(str)), old, new)

\* How many characters of the class follow one another from position p on.
RunLen(str, p, class) ==
    CHOOSE n \in 0..(Len(str) - p + 1) :
        /\ \A k \in p..(p + n - 1) : str[k] \in class
        /\ p + n > Len(str) \/ str[p + n] \notin class

Least(set) == CHOOSE i \in set : \A j \in set : i <= j
Greatest(set) == CHOOSE i \in set : \A j \in set : i >= j

\* urlRegex, https?://([a-zA-Z0-9.-]+\.[a-zA-Z]{2,}): where the host begins
\* if the scheme stands at position i, else 0.
HostStart(str, i) ==
    IF HasPrefixAt(str, i, <<"h", "t", "t", "p", "s", ":", "/", "/">>) THEN i + 8
    ELSE IF HasPrefixAt(str, i, <<"h", "t", "t", "p", ":", "/", "/">>) THEN i + 7
    ELSE 0

\* The lengths the greedy [a-zA-Z0-9.-]+ may stop at from position p: a dot
\* and two letters or more follow.
UrlHostSplits(str, p) ==
    {l \in 1..RunLen(str, p, HostChars) :
        /\ p + l <= Len(str)
        /\ str[p + l] = "."
        /\ RunLen(str, p + l + 1, Letters) >= 2}

\* urlRegex.FindStringSubmatch(title)[1], or the empty string without a match.
UrlRegexHost(str) ==
    LET starts == {i \in 1..Len(str) :
                      /\ HostStart(str, i) # 0
                      /\ UrlHostSplits(str, HostStart(str, i)) # {}}
    IN  IF starts = {} THEN <<>>
        ELSE LET p == HostStart(str, Least(starts))
                 l == Greatest(UrlHostSplits(str, p))
             IN  SubSeq(str, p, p + l + RunLen(str, p + l + 1, Letters))

\* The alternatives of domainRegex's top-level domain, in their order.
TopLevelDomains == <<
    <<"c", "o", "m">>, <<"o", "r", "g">>, <<"n", "e", "t">>, <<"i", "o">>,
    <<"c", "o">>, <<"e", "d", "u">>, <<"g", "o", "v">>, <<"u", "k">>,
    <<"d", "e">>, <<"f", "r">>, <<"j", "p">>, <<"a", "u">>, <<"c", "a">>,
    <<"i", "n">>, <<"b", "r">>, <<"r", "u">>, <<"c", "n">>, <<"e", "s">>,
    <<"i", "t">>, <<"n", "l">>, <<"s", "e">>, <<"n", "o">>, <<"d", "k">>,
    <<"f", "i">>, <<"p", "l">>, <<"c", "z">>, <<"a", "t">>, <<"c", "h">>,
    <<"b", "e">>, <<"i", "e">>, <<"p", "t">>, <<"g", "r">>, <<"t", "r">>,
    <<"z", "a">>, <<"m", "x">>, <<"a", "r">>, <<"c", "l">>, <<"p", "e">>,
    <<"v", "e">>, <<"e", "c">>, <<"u", "y">>, <<"p", "y">>, <<"b", "o">>,
    <<"c", "r">>, <<"p", "a">>, <<"d", "o">>, <<"g", "t">>, <<"h", "n">>,
    <<"n", "i">>, <<"s", "v">>, <<"b", "z">>, <<"j", "m">>, <<"t", "t">>,
    <<"b", "b">>, <<"g", "d">>, <<"l", "c">>, <<"v", "c">>, <<"a", "g">>,
    <<"d", "m">>, <<"k", "n">>, <<"a", "i">>, <<"v", "g">>, <<"k", "y">>,
    <<"m", "s">>, <<"t", "c">>, <<"f", "k">>, <<"g", "i">>, <<"m", "t">>,
    <<"c", "y">>, <<"i", "s">>, <<"l", "i">>, <<"m", "c">>, <<"a", "d">>,
    <<"s", "m">>, <<"v", "a">>, <<"l", "u">>, <<"m", "o">>, <<"h", "k">>,
    <<"s", "g">>, <<"m", "y">>, <<"t", "h">>, <<"p", "h">>, <<"i", "d">>,
    <<"v", "n">>, <<"k", "h">>, <<"l", "a">>, <<"m", "m">>, <<"b", "n">>,
    <<"p", "k">>, <<"b", "d">>, <<"l", "k">>, <<"n", "p">>, <<"a", "f">>,
    <<"i", "r">>, <<"i", "q">>, <<"s", "a">>, <<"a", "e">>, <<"k", "w">>,
    <<"b", "h">>, <<"q", "a">>, <<"o", "m">>, <<"y", "e">>, <<"j", "o">>,
    <<"l", "b">>, <<"s", "y">>, <<"i", "l">>, <<"p", "s">>, <<"e", "g">>,
    <<"l", "y">>, <<"t", "n">>, <<"d", "z">>, <<"m", "a">>, <<"m", "r">>,
    <<"s", "n">>, <<"m", "l">>, <<"b", "f">>, <<"n", "e">>, <<"t", "d">>,
    <<"s", "d">>, <<"e", "r">>, <<"e", "t">>, <<"d", "j">>, <<"s", "o">>,
    <<"k", "e">>, <<"u", "g">>, <<"r", "w">>, <<"b", "i">>, <<"t", "z">>,
    <<"z", "m">>, <<"m", "w">>, <<"m", "z">>, <<"a", "o">>, <<"n", "a">>,
    <<"b", "w">>, <<"s", "z">>, <<"l", "s">>, <<"m", "g">>, <<"m", "u">>,
    <<"s", "c">>, <<"k", "m">>, <<"y", "t">>, <<"r", "e">>, <<"i", "o">>,
    <<"s", "h">>, <<"a", "c">>, <<"g", "s">>, <<"t", "f">>, <<"a", "q">>,
    <<"b", "v">>, <<"h", "m">>, <<"s", "j">>, <<"u", "m">>, <<"a", "s">>,
    <<"g", "u">>, <<"m", "p">>, <<"p", "r">>, <<"v", "i">>, <<"f", "m">>,
    <<"m", "h">>, <<"p", "w">>, <<"c", "k">>, <<"n", "u">>, <<"p", "n">>,
    <<"t", "k">>, <<"t", "o">>, <<"t", "v">>, <<"v", "u">>, <<"w", "s">>,
    <<"n", "f">>, <<"n", "r">>, <<"k", "i">>, <<"s", "b">>, <<"p", "g">>,
    <<"f", "j">>, <<"n", "c">>, <<"p", "f">>, <<"w", "f">>, <<"e", "h">>,
    <<"a", "x">>, <<"g", "g">>, <<"j", "e">>, <<"i", "m">>, <<"f", "o">>,
    <<"g", "l">>, <<"p", "m">>, <<"b", "l">>, <<"m", "f">>, <<"s", "o">>,
    <<"d", "e", "v">> >>

\* The alternatives that stand at position p, by their index.
TldsAt(str, p) ==
    {k \in DOMAIN TopLevelDomains : HasPrefixAt(str, p, TopLevelDomains[k])}

\* The lengths the greedy [a-zA-Z0-9.-]+ may stop at from position p: a dot
\* and one of the alternatives follow.
DomainSplits(str, p) ==
    {l \in 1..RunLen(str, p, HostChars) :
        /\ p + l <= Len(str)
        /\ str[p + l] = "."
        /\ TldsAt(str, p + l + 1) # {}}

\* domainRegex.FindStringSubmatch(titleLower)[1], or the empty string.
DomainRegexHost(str) ==
    LET starts == {i \in 1..Len(str) : DomainSplits(str, i) # {}}
    IN  IF starts = {} THEN <<>>
        ELSE LET p == Least(starts)
                 l == Greatest(DomainSplits(str, p))
                 tld == TopLevelDomains[Least(TldsAt(str, p + l + 1))]
             IN  SubSeq(str, p, p + l + Len(tld))

\* domainMap: <<key, domain>>.
DomainMap == {
    <<<<"y", "o", "u", "t", "u", "b", "e">>,
      <<"y", "o", "u", "t", "u", "b", "e", ".", "c", "o", "m">>>>,
    <<<<"g", "i", "t", "h", "u", "b">>,
      <<"g", "i", "t", "h", "u", "b", ".", "c", "o", "m">>>>,
    <<<<"s", "t", "a", "c", "k", " ", "o", "v", "e", "r", "f", "l", "o", "w">>,
      <<"s", "t", "a", "c", "k", "o", "v", "e", "r", "f", "l", "o", "w", ".", "c", "o", "m">>>>,
    <<<<"f", "a", "c", "e", "b", "o", "o", "k">>,
      <<"f", "a", "c", "e", "b", "o", "o", "k", ".", "c", "o", "m">>>>,
    <<<<"t", "w", "i", "t", "t", "e", "r">>,
      <<"t", "w", "i", "t", "t", "e", "r", ".", "c", "o", "m">>>>,
    <<<<"x", ".", "c", "o", "m">>,
      <<"x", ".", "c", "o", "m">>>>,
    <<<<"l", "i", "n", "k", "e", "d", "i", "n">>,
      <<"l", "i", "n", "k", "e", "d", "i", "n", ".", "c", "o", "m">>>>,
    <<<<"r", "e", "d", "d", "i", "t">>,
      <<"r", "e", "d", "d", "i", "t", ".", "c", "o", "m">>>>,
    <<<<"i", "n", "s", "t", "a", "g", "r", "a", "m">>,
      <<"i", "n", "s", "t", "a", "g", "r", "a", "m", ".", "c", "o", "m">>>>,
    <<<<"d", "i", "s", "c", "o", "r", "d">>,
      <<"d", "i", "s", "c", "o", "r", "d", ".", "c", "o", "m">>>>,
    <<<<"s", "l", "a", "c", "k">>,
      <<"s", "l", "a", "c", "k", ".", "c", "o", "m">>>>,
    <<<<"g", "m", "a", "i", "l">>,
      <<"g", "m", "a", "i", "l", ".", "c", "o", "m">>>>,
    <<<<"o", "u", "t", "l", "o", "o", "k">>,
      <<"o", "u", "t", "l", "o", "o", "k", ".", "c", "o", "m">>>>,
    <<<<"n", "o", "t", "i", "o", "n">>,
      <<"n", "o", "t", "i", "o", "n", ".", "s", "o">>>>,
    <<<<"f", "i", "g", "m", "a">>,
      <<"f", "i", "g", "m", "a", ".", "c", "o", "m">>>>,
    <<<<"t", "r", "e", "l", "l", "o">>,
      <<"t", "r", "e", "l", "l", "o", ".", "c", "o", "m">>>>,
    <<<<"a", "s", "a", "n", "a">>,
      <<"a", "s", "a", "n", "a", ".", "c", "o", "m">>>>,
    <<<<"j", "i", "r", "a">>,
      <<"j", "i", "r", "a", ".", "c", "o", "m">>>>,
    <<<<"c", "o", "n", "f", "l", "u", "e", "n", "c", "e">>,
      <<"c", "o", "n", "f", "l", "u", "e", "n", "c", "e", ".", "c", "o", "m">>>>,
    <<<<"m", "e", "d", "i", "u", "m">>,
      <<"m", "e", "d", "i", "u", "m", ".", "c", "o", "m">>>>,
    <<<<"d", "e", "v">>,
      <<"d", "e", "v", ".", "t", "o">>>>,
    <<<<"s", "t", "a", "c", "k", " ", "e", "x", "c", "h", "a", "n", "g", "e">>,
      <<"s", "t", "a", "c", "k", "e", "x", "c", "h", "a", "n", "g", "e", ".", "c", "o", "m">>>>,
    <<<<"w", "i", "k", "i", "p", "e", "d", "i", "a">>,
      <<"w", "i", "k", "i", "p", "e", "d", "i", "a", ".", "o", "r", "g">>>>,
    <<<<"a", "m", "a", "z", "o", "n">>,
      <<"a", "m", "a", "z", "o", "n", ".", "c", "o", "m">>>>,
    <<<<"n", "e", "t", "f", "l", "i", "x">>,
      <<"n", "e", "t", "f", "l", "i", "x", ".", "c", "o", "m">>>>,
    <<<<"s", "p", "o", "t", "i", "f", "y">>,
      <<"s", "p", "o", "t", "i", "f", "y", ".", "c", "o", "m">>>>,
    <<<<"z", "o", "o", "m">>,
      <<"z", "o", "o", "m", ".", "u", "s">>>>,
    <<<<"m", "i", "c", "r", "o", "s", "o", "f", "t", " ", "t", "e", "a", "m", "s">>,
      <<"t", "e", "a", "m", "s", ".", "m", "i", "c", "r", "o", "s", "o", "f", "t", ".", "c", "o", "m">>>>,
    <<<<"g", "o", "o", "g", "l", "e", " ", "m", "e", "e", "t">>,
      <<"m", "e", "e", "t", ".", "g", "o", "o", "g", "l", "e", ".", "c", "o", "m">>>> }

\* extractDomainFromTitleText's browserNames, in the order of the slice.
BrowserOrSearchNames == <<
    <<"g", "o", "o", "g", "l", "e", " ", "c", "h", "r", "o", "m", "e">>,
    <<"c", "h", "r", "o", "m", "e">>,
    <<"c", "h", "r", "o", "m", "i", "u", "m">>,
    <<"m", "o", "z", "i", "l", "l", "a", " ", "f", "i", "r", "e", "f", "o", "x">>,
    <<"f", "i", "r", "e", "f", "o", "x">>,
    <<"m", "i", "c", "r", "o", "s", "o", "f", "t", " ", "e", "d", "g", "e">>,
    <<"e", "d", "g", "e">>,
    <<"s", "a", "f", "a", "r", "i">>,
    <<"o", "p", "e", "r", "a">>,
    <<"b", "r", "a", "v", "e">>,
    <<"v", "i", "v", "a", "l", "d", "i">>,
    <<"t", "o", "r", " ", "b", "r", "o", "w", "s", "e", "r">>,
    <<"g", "o", "o", "g", "l", "e", " ", "s", "e", "a", "r", "c", "h">>,
    <<"s", "e", "a", "r", "c", "h">> >>

\* extractDomainFromTitle's browsers.
TitleBrowsers == {
    <<"c", "h", "r", "o", "m", "e">>,
    <<"g", "o", "o", "g", "l", "e", " ", "c", "h", "r", "o", "m", "e">>,
    <<"c", "h", "r", "o", "m", "i", "u", "m">>,
    <<"f", "i", "r", "e", "f", "o", "x">>,
    <<"m", "o", "z", "i", "l", "l", "a", " ", "f", "i", "r", "e", "f", "o", "x">>,
    <<"e", "d", "g", "e">>,
    <<"m", "i", "c", "r", "o", "s", "o", "f", "t", " ", "e", "d", "g", "e">>,
    <<"s", "a", "f", "a", "r", "i">>,
    <<"o", "p", "e", "r", "a">>,
    <<"b", "r", "a", "v", "e">>,
    <<"v", "i", "v", "a", "l", "d", "i">>,
    <<"t", "o", "r", " ", "b", "r", "o", "w", "s", "e", "r">> }

\* isBrowserApplication's browsers (the url-update handler).
HandlerBrowsers == {
    <<"c", "h", "r", "o", "m", "e">>,
    <<"g", "o", "o", "g", "l", "e", " ", "c", "h", "r", "o", "m", "e">>,
    <<"c", "h", "r", "o", "m", "i", "u", "m">>,
    <<"f", "i", "r", "e", "f", "o", "x">>,
    <<"m", "o", "z", "i", "l", "l", "a", " ", "f", "i", "r", "e", "f", "o", "x">>,
    <<"e", "d", "g", "e">>,
    <<"m", "i", "c", "r", "o", "s", "o", "f", "t", " ", "e", "d", "g", "e">>,
    <<"s", "a", "f", "a", "r", "i">>,
    <<"o", "p", "e", "r", "a">>,
    <<"b", "r", "a", "v", "e">>,
    <<"v", "i", "v", "a", "l", "d", "i">> }

\* isBrowserOrSearchTerm
IsBrowserOrSearchTerm(text) ==
    \E k \in DOMAIN BrowserOrSearchNames :
        Contains(text, BrowserOrSearchNames[k])

\* \bgoogle\b matches in text.
GoogleWord(text) ==
    LET google == <<"g", "o", "o", "g", "l", "e">>
    IN  \E i \in 1..Len(text) :
            /\ HasPrefixAt(text, i, google)
            /\ i = 1 \/ text[i - 1] \notin WordChars
            /\ i + 6 > Len(text) \/ text[i + 6] \notin WordChars

\* matchGoogleSite: google.com for the word google, unless the text has
\* "google chrome", "google search" or "chromium" in it.
MatchGoogleSite(text) ==
    LET textLower == ToLower(text)
    IN  IF \/ Contains(textLower, <<"g", "o", "o", "g", "l", "e", " ", "c", "h", "r", "o", "m", "e">>)
           \/ Contains(textLower, <<"g", "o", "o", "g", "l", "e", " ", "s", "e", "a", "r", "c", "h">>)
           \/ Contains(textLower, <<"c", "h", "r", "o", "m", "i", "u", "m">>)
        THEN <<>>
        ELSE IF GoogleWord(textLower)
        THEN <<"g", "o", "o", "g", "l", "e", ".", "c", "o", "m">>
        ELSE <<>>

\* for key, domain := range domainMap: the domain of a key the text contains,
\* whichever key the map iteration meets first.
KnownSites(text) == {m[2] : m \in {x \in DomainMap : Contains(text, x[1])}}

\* The google rule and then the dictionary on one text: the domains it may
\* yield, none if it yields nothing.
SiteOf(text) ==
    IF MatchGoogleSite(text) # <<>> THEN {MatchGoogleSite(text)}
    ELSE KnownSites(text)

\* regexp ^[\(\d\)\s]+ replaced by "".
RECURSIVE StripCounter(_)
StripCounter(text) ==
    IF text # <<>> /\ Head(text) \in {"(", ")"} \cup Digits \cup SpaceChars
    THEN StripCounter(Tail(text))
    ELSE text

\* The title with every browser name and search term cut out, in the order of
\* the slice.
RECURSIVE Cleaned(_, _)
Cleaned(text, k) ==
    IF k > Len(BrowserOrSearchNames) THEN text
    ELSE Cleaned(ReplaceAll(text, BrowserOrSearchNames[k], <<>>), k + 1)

\* extractDomainFromTitleText: the domains it may return ("" for none).
ExtractDomainFromTitleText(title) ==
    LET titleLower == ToLower(title)
        www == <<"w", "w", "w", ".">>
        parts == Split(titleLower, <<" ", "-", " ">>)
        first == IF parts[1] = <<>> THEN {}
                 ELSE SiteOf(TrimSpace(StripCounter(TrimSpace(parts[1]))))
        second == IF Len(parts) > 1 /\ parts[2] # <<>>
                     /\ ~IsBrowserOrSearchTerm(TrimSpace(parts[2]))
                  THEN SiteOf(TrimSpace(parts[2]))
                  ELSE {}
        whole == SiteOf(Cleaned(titleLower, 1))
    IN  IF title = <<>> THEN {<<>>}
        ELSE IF UrlRegexHost(title) # <<>>
        THEN {TrimPrefix(ToLower(UrlRegexHost(title)), www)}
        ELSE IF DomainRegexHost(titleLower) # <<>>
        THEN {TrimPrefix(ToLower(DomainRegexHost(titleLower)), www)}
        ELSE IF first # {} THEN first
        ELSE IF second # {} THEN second
        ELSE IF whole # {} THEN whole
        ELSE {<<>>}

\* The application's lower case contains one of the names.
IsBrowser(application, names) ==
    \E b \in names : Contains(ToLower(application), b)

\* Mutant: extractDomainFromTitle without its check of the application.
ExtractDomainFromTitle_AnyApplication(title, application) ==
    IF title = <<>> \/ application = <<>> THEN {<<>>}
    ELSE {IF d = <<>> THEN <<>> ELSE <<"h", "t", "t", "p", "s", ":", "/", "/">> \o d :
             d \in ExtractDomainFromTitleText(title)}

\* extractDomainFromTitle: "https://" + domain for a browser's title that
\* yields a domain, else nil (the empty string here).
ExtractDomainFromTitle(title, application) ==
    IF title = <<>> \/ application = <<>> THEN {<<>>}
    ELSE IF ~IsBrowser(application, TitleBrowsers) THEN {<<>>}
    ELSE {IF d = <<>> THEN <<>> ELSE <<"h", "t", "t", "p", "s", ":", "/", "/">> \o d :
             d \in ExtractDomainFromTitleText(title)}

\* The url of an event: from the extension (a URL of the store), parsed from
\* the title, or absent.
NoURL == [source |-> "none", ext |-> 0, parsed |-> <<>>]
ExtensionURL(u) == [source |-> "extension", ext |-> u, parsed |-> <<>>]
TitleURL(parsed) == [source |-> "title", ext |-> 0, parsed |-> parsed]

\* No event has been built yet.
NoEvent == [application |-> <<>>, title |-> <<>>, url |-> NoURL]

\* Mutant: the title-parsed URL is preferred to the extension's.
EventURL_TitleFirst(res, parsed) ==
    IF parsed # <<>> THEN TitleURL(parsed)
    ELSE IF res.found THEN ExtensionURL(res.url)
    ELSE NoURL

\* createEvent's choice of event.URL from the store's answer res and, on a
\* miss, extractDomainFromTitle's.
EventURL(res, parsed) ==
    IF res.found THEN ExtensionURL(res.url)
    ELSE IF parsed # <<>> THEN TitleURL(parsed)
    ELSE NoURL

\* ---- inputs of the enrichment model
\* Titles the extension reports and titles of foreground windows.
TabTitles == {<<"Y", "o", "u", "T", "u", "b", "e">>}
WindowTitles == {<<>>, <<"Y", "o", "u", "T", "u", "b", "e", " ", "-", " ", "G", "o", "o", "g", "l", "e", " ", "C", "h", "r", "o", "m", "e">>, <<"G", "o", "o", "g", "l", "e", " ", "-", " ", "Y", "o", "u", "T", "u", "b", "e">>, <<"I", "n", "b", "o", "x">>, <<"a", ".", "i", "o">>,
                 <<"G", "i", "t", "H", "u", "b", " ", "Y", "o", "u", "T", "u", "b", "e">>}

\* handleURLUpdate: a request whose application is no browser is rejected;
\* one that passes is stored.
HandleURLUpdate(application, title, u) ==
    /\ application # <<>>
    /\ IsBrowser(application, HandlerBrowsers)
    /\ StoreByApplicationAndTitle(application, title, u)

\* ---- the url-update handler on the body of a POST
\* The text of a request body: the first JSON value it holds, which is an
\* object with the fields application, title, url and timestamp, well formed
\* or cut short, the JSON type of its timestamp, and the bytes after that
\* value.
Body(syntax, application, title, url, timestamp, rest) ==
    [syntax |-> syntax, application |-> application, title |-> title,
     url |-> url, timestamp |-> timestamp, rest |-> rest]

\* The body that holds no byte.
EmptyBody == Body("malformed", <<>>, <<>>, <<>>, "number", <<>>)

Bodies ==
    {Body(syntax, application, title, url, timestamp, rest) :
        syntax \in {"object", "malformed"},
        application \in Applications \cup {<<>>},
        title \in {<<"A">>},
        url \in {<<>>, <<"h", "t", "t", "p", ":", "/", "/", "a">>,
                 <<"h", "t", "t", "p", "s", ":", "/", "/", "a">>,
                 <<"f", "t", "p", ":", "/", "/", "a">>},
        timestamp \in {"number", "string"},
        rest \in {<<>>, <<"x">>}}

\* The whole body is one JSON value.
ValidJSON(body) == body.syntax = "object" /\ body.rest = <<>>

\* json.NewDecoder(r.Body).Decode(&req): reads the first JSON value of the
\* body, and fails if that value is not well formed or if a field's JSON type
\* does not fit the field of URLUpdateRequest (Timestamp is an int64); it
\* does not read what follows the value.
Decode(body) ==
    IF body.syntax # "object" \/ body.timestamp # "number"
    THEN [err |-> TRUE, Application |-> <<>>, Title |-> <<>>, URL |-> <<>>]
    ELSE [err |-> FALSE, Application |-> body.application,
          Title |-> body.title, URL |-> body.url]

NoReply == [n |-> 0, body |-> EmptyBody, status |-> 0]

\* handleURLUpdate on a POST with this body: 400 for a body that does not
\* decode, for an empty application or url, for an application that is no
\* browser and for a url without the http:// or https:// prefix; else
\* StoreByApplicationAndTitle and 200.
HandleURLUpdateBody(body) ==
    /\ ~urlPanic
    /\ reply.n < MaxRequests
    /\ LET req == Decode(body)
           bad == \/ req.err
                  \/ req.Application = <<>> \/ req.URL = <<>>
                  \/ ~IsBrowser(req.Application, HandlerBrowsers)
                  \/ /\ ~HasPrefix(req.URL, <<"h", "t", "t", "p", ":", "/", "/">>)
                     /\ ~HasPrefix(req.URL, <<"h", "t", "t", "p", "s", ":", "/", "/">>)
       IN  IF bad
           THEN /\ reply' = [n |-> reply.n + 1, body |-> body, status |-> 400]
                /\ UNCHANGED <<urls, stores>>
           ELSE /\ \E napp \in NormalizeApplicationName(req.Application) :
                      urls' = Store(urls, MakeKey(napp, req.Title), req.URL,
                                    now)
                /\ stores' = stores + 1
                /\ reply' = [n |-> reply.n + 1, body |-> body, status |-> 200]
    /\ UNCHANGED <<now, urlStopped, urlLoop, urlStopper, urlPanic, lookup,
                   urlStops>>
    /\ UNCHANGED <<queueVars, collectorVars, svcVars, event, boot, lk, probe,
                   hk>>

\* createEvent for a window with an application, with the URL store: the
\* event's URL once GetByApplicationAndTitle has returned.
CreateEventURL ==
    /\ ~urlPanic
    /\ lookup.pc = "done"
    /\ lookup.op = "GetByApplicationAndTitle"
    /\ \E parsed \in ExtractDomainFromTitle(lookup.title, lookup.application) :
           event' = [application |-> lookup.application,
                     title |-> lookup.title,
                     url |-> EventURL(lookup.res, parsed)]
    /\ lookup' = LookupIdle
    /\ UNCHANGED <<now, urls, urlStopped, urlLoop, urlStopper, urlPanic,
                   stores, urlStops>>
    /\ UNCHANGED <<queueVars, collectorVars, svcVars, boot, lk, probe, hk, reply>>

\* createEvent where no store is asked: the window has no application, or
\* ts.urlStore is nil.
CreateEventWithoutStore(application, title) ==
    /\ ~urlPanic
    /\ lookup.pc # "fuzzy"
    /\ \E parsed \in ExtractDomainFromTitle(title, application) :
           event' = [application |-> application, title |-> title,
                     url |-> IF application = <<>> THEN NoURL
                             ELSE EventURL(Miss, parsed)]
    /\ UNCHANGED urlVars
    /\ UNCHANGED <<now, queueVars, collectorVars, svcVars, boot, lk, probe,
                   hk, reply>>

\* ======================================================= trackers, orchestrator
\* The goroutines of a started TrackingService: the caller of Stop, the window
\* tracker's pollLoop, the activity tracker's stateCheckLoop, the OS thread
\* that runs the input hook procedures, the collector's autoFlushLoop and the
\* orchestrator's queueProcessor.
Threads == {"main", "poll", "tick", "hook", "flush", "drain"}

\* Where a goroutine rests between two pieces of work.
Home(t) == IF t \in {"main", "hook"} THEN "idle" ELSE "select"

\* platform.WindowInfo
WindowInfo(pid, title, application, visible, path, stamp) ==
    [ProcessID |-> pid, Title |-> title, Application |-> application,
     IsVisible |-> visible, ProcessPath |-> path, Timestamp |-> stamp]

\* What platform.GetActiveWindow reports in the orchestrator model.
Windows ==
    {WindowInfo(1, "A", "app", TRUE, "p", 0),
     WindowInfo(2, "B", "app", TRUE, "p", 0)}

\* What it reports in the window model: a window, and the windows that
\* differ from it in one field.
WindowInfos ==
    {WindowInfo(1, "A", "app", TRUE, "p", 0),
     WindowInfo(2, "A", "app", TRUE, "p", 0),
     WindowInfo(1, "B", "app", TRUE, "p", 0),
     WindowInfo(1, "A", "bpp", TRUE, "p", 0),
     WindowInfo(1, "A", "app", FALSE, "p", 0),
     WindowInfo(1, "A", "app", TRUE, "q", 0),
     WindowInfo(1, "A", "app", TRUE, "p", 1)}

\* A nil *WindowInfo.
NoWindow == [nil |-> TRUE]

\* tracker.ActivityState
StateActive == "active"
StateIdle == "idle"
StateAway == "away"
StateOffline == "offline"

\* A goroutine's locals: the window and the state it carries, createEvent's
\* now (or the hook event's Timestamp), the batch it holds for the callback,
\* and k = "win" while onWindowChange is inside RecordActivity and has its own
\* createEvent still to make.
LocIdle == [w |-> NoWindow, st |-> "", tnow |-> NoTime, taken |-> <<>>,
            k |-> ""]

\* The order of TrackingService.Stop's milestones.
StopOrder == <<"flag", "activity", "unhook", "window", "collector", "join",
               "flush">>

\* ---- the goroutines at the grain of their mutexes
\* The functions are listed by what they do to mutexes, channels and each
\* other, in the order of their statements:
\*   lock / unlock / rlock / runlock m   sync.RWMutex or sync.Mutex m
\*   call f          a call that is always made
\*   maycall f       a call behind a condition on data
\*   mayret          a return behind a condition (a closed stop channel, an
\*                   error, nothing to do)
\*   close c         close(c); for "hooks", UnhookWindowsHookEx
\*   wait t          wg.Wait() for goroutine t
\*   loop f c        for { select { case <-ticker.C: f(); case <-c: return } }
\*   serve f c       the OS calls f while the hooks c are installed
\*   io              work under no mutex of the program (HTTP, SQLite, log)
LockThreads == {"main", "poll", "tick", "hook", "flush"}

\* Mutant: onWindowChange calls RecordActivity with ts.mu still held.
OnWindowChangeCode_CallsLocked ==
    << <<"lock", "ts.mu">>, <<"call", "RecordActivity">>,
       <<"unlock", "ts.mu">>, <<"call", "createEvent">> >>

\* TrackingService.onWindowChange
OnWindowChangeCode ==
    << <<"lock", "ts.mu">>, <<"unlock", "ts.mu">>,
       <<"call", "RecordActivity">>, <<"call", "createEvent">> >>

Program ==
    [pollLoop |-> << <<"call", "checkWindow">>,
                     <<"loop", "checkWindow", "wt.stopChan">> >>,
     checkWindow |-> << <<"mayret">>, <<"lock", "wt.mu">>,
                        <<"unlock", "wt.mu">>, <<"mayret">>,
                        <<"call", "onWindowChange">> >>,
     onWindowChange |-> OnWindowChangeCode,
     RecordActivity |-> << <<"lock", "at.mu">>, <<"unlock", "at.mu">>,
                           <<"maycall", "setState">> >>,
     stateCheckLoop |-> << <<"loop", "checkState", "at.stopChan">> >>,
     checkState |-> << <<"mayret">>, <<"lock", "at.mu">>,
                       <<"unlock", "at.mu">>, <<"mayret">>,
                       <<"maycall", "setState">> >>,
     setState |-> << <<"mayret">>, <<"lock", "at.mu">>,
                     <<"unlock", "at.mu">>, <<"mayret">>,
                     <<"call", "onActivityStateChange">> >>,
     onActivityStateChange |-> << <<"lock", "ts.mu">>, <<"unlock", "ts.mu">>,
                                  <<"maycall", "createEvent">> >>,
     createEvent |-> << <<"rlock", "ts.mu">>, <<"runlock", "ts.mu">>,
                        <<"mayret">>, <<"call", "AddEvent">> >>,
     AddEvent |-> << <<"lock", "ec.mu">>, <<"unlock", "ec.mu">>,
                     <<"maycall", "onBatchReady">> >>,
     Flush |-> << <<"lock", "ec.mu">>, <<"unlock", "ec.mu">>,
                  <<"maycall", "onBatchReady">> >>,
     onBatchReady |-> << <<"io">> >>,
     autoFlushLoop |-> << <<"loop", "Flush", "ec.stopChan">> >>,
     hookThread |-> << <<"serve", "hookProc", "hooks">> >>,
     hookProc |-> << <<"lock", "p.mu">>, <<"unlock", "p.mu">>,
                     <<"maycall", "handleActivityEvent">>, <<"io">> >>,
     handleActivityEvent |-> << <<"lock", "at.mu">>, <<"unlock", "at.mu">>,
                                <<"maycall", "setState">> >>,
     main |-> << <<"call", "Stop">> >>,
     Stop |-> << <<"lock", "ts.mu">>, <<"close", "ts.stopChan">>,
                 <<"unlock", "ts.mu">>, <<"call", "atStop">>,
                 <<"call", "wtStop">>, <<"call", "ecStop">>,
                 <<"call", "Flush">> >>,
     atStop |-> << <<"lock", "at.mu">>, <<"close", "at.stopChan">>,
                   <<"unlock", "at.mu">>, <<"wait", "tick">>,
                   <<"call", "StopActivityMonitoring">> >>,
     StopActivityMonitoring |-> << <<"lock", "p.mu">>, <<"close", "hooks">>,
                                   <<"unlock", "p.mu">> >>,
     wtStop |-> << <<"lock", "wt.mu">>, <<"close", "wt.stopChan">>,
                   <<"unlock", "wt.mu">>, <<"wait", "poll">> >>,
     ecStop |-> << <<"lock", "ec.mu">>, <<"close", "ec.stopChan">>,
                   <<"unlock", "ec.mu">>, <<"wait", "flush">>,
                   <<"lock", "ec.mu">>, <<"unlock", "ec.mu">>,
                   <<"maycall", "onBatchReady">> >>]

Mutexes == {"ts.mu", "at.mu", "wt.mu", "ec.mu", "p.mu"}

\* the function each goroutine runs
GoFunc(t) ==
    CASE t = "main" -> "main"
      [] t = "poll" -> "pollLoop"
      [] t = "tick" -> "stateCheckLoop"
      [] t = "hook" -> "hookThread"
      [] t = "flush" -> "autoFlushLoop"

LocksFree ==
    [stack |-> [t \in LockThreads |-> << [f |-> GoFunc(t), i |-> 1] >>],
     w |-> [m \in Mutexes |-> "none"],
     r |-> [m \in Mutexes |-> {}],
     closed |-> {}]

\* frames whose function has run to its end return to their callers
RECURSIVE Unwind(_)
Unwind(st) ==
    IF st = <<>> THEN st
    ELSE IF st[Len(st)].i > Len(Program[st[Len(st)].f])
         THEN Unwind(SubSeq(st, 1, Len(st) - 1))
         ELSE st

Advance(st) == Unwind([st EXCEPT ![Len(st)].i = @ + 1])

PopFrame(st) == Unwind(SubSeq(st, 1, Len(st) - 1))

Call(st, f) ==
    Unwind(Append([st EXCEPT ![Len(st)].i = @ + 1], [f |-> f, i |-> 1]))

\* the statement goroutine t is at
Instr(t) ==
    Program[lk.stack[t][Len(lk.stack[t])].f][lk.stack[t][Len(lk.stack[t])].i]

Running(t) == lk.stack[t] # <<>>

\* the mutexes goroutine t holds, for writing or for reading
Held(t) == {m \in Mutexes : lk.w[m] = t \/ t \in lk.r[m]}

\* the goroutines that goroutine t is waiting for at its statement
Blockers(t) ==
    IF ~Running(t) THEN {}
    ELSE CASE Instr(t)[1] = "lock" ->
                ({lk.w[Instr(t)[2]]} \ {"none"}) \cup lk.r[Instr(t)[2]]
           [] Instr(t)[1] = "rlock" -> {lk.w[Instr(t)[2]]} \ {"none"}
           [] Instr(t)[1] = "wait" ->
                IF Running(Instr(t)[2]) THEN {Instr(t)[2]} ELSE {}
           [] OTHER -> {}

\* one statement of goroutine t
LockStep(t) ==
    /\ Running(t)
    /\ Blockers(t) = {}
    /\ LET op == Instr(t)
           st == lk.stack[t]
       IN CASE op[1] = "lock" ->
                 lk' = [lk EXCEPT !.w[op[2]] = t, !.stack[t] = Advance(st)]
            [] op[1] = "unlock" ->
                 lk' = [lk EXCEPT !.w[op[2]] = "none",
                                  !.stack[t] = Advance(st)]
            [] op[1] = "rlock" ->
                 lk' = [lk EXCEPT !.r[op[2]] = @ \cup {t},
                                  !.stack[t] = Advance(st)]
            [] op[1] = "runlock" ->
                 lk' = [lk EXCEPT !.r[op[2]] = @ \ {t},
                                  !.stack[t] = Advance(st)]
            [] op[1] = "call" ->
                 lk' = [lk EXCEPT !.stack[t] = Call(st, op[2])]
            [] op[1] = "maycall" ->
                 \/ lk' = [lk EXCEPT !.stack[t] = Call(st, op[2])]
                 \/ lk' = [lk EXCEPT !.stack[t] = Advance(st)]
            [] op[1] = "mayret" ->
                 \/ lk' = [lk EXCEPT !.stack[t] = PopFrame(st)]
                 \/ lk' = [lk EXCEPT !.stack[t] = Advance(st)]
            [] op[1] = "close" ->
                 lk' = [lk EXCEPT !.closed = @ \cup {op[2]},
                                  !.stack[t] = Advance(st)]
            [] op[1] = "wait" ->
                 lk' = [lk EXCEPT !.stack[t] = Advance(st)]
            [] op[1] = "loop" ->
                 \/ lk' = [lk EXCEPT !.stack[t] =
                                         Append(st, [f |-> op[2], i |-> 1])]
                 \/ /\ op[3] \in lk.closed
                    /\ lk' = [lk EXCEPT !.stack[t] = PopFrame(st)]
            [] op[1] = "serve" ->
                 IF op[3] \in lk.closed
                 THEN lk' = [lk EXCEPT !.stack[t] = PopFrame(st)]
                 ELSE lk' = [lk EXCEPT !.stack[t] =
                                         Append(st, [f |-> op[2], i |-> 1])]
            [] op[1] = "io" ->
                 lk' = [lk EXCEPT !.stack[t] = Advance(st)]
    /\ UNCHANGED <<now, queueVars, collectorVars, urlVars, svcVars, event,
                   boot, probe, hk, reply>>

\* ---- the Windows probe (impl_windows.go)
\* The handle SetWindowsHookEx returns for a hook of the kind; 0 is failure.
Handle(kind) == IF kind = "mouse" THEN 1 ELSE 2

\* &windowsImpl{}: no hooks, no callback, not stopped. installed is the OS's
\* view; installs and unhooks are the calls to SetWindowsHookEx (that
\* succeeded) and to UnhookWindowsHookEx; sunk counts the calls of the
\* activity callback, entered and chained those of a hook procedure and of
\* CallNextHookEx.
ProbeNew ==
    [mouseHook |-> 0, keyboardHook |-> 0, activityCallback |-> "nil",
     stopped |-> FALSE, mu |-> "",
     start |-> "new", stop |-> "idle", stops |-> 0,
     installed |-> {}, installs |-> <<>>, unhooks |-> <<>>,
     sunk |-> 0, entered |-> 0, chained |-> 0]

HookIdle ==
    [pc |-> "idle", kind |-> "", nCode |-> 0, wParam |-> "",
     stopped |-> FALSE, callback |-> "nil", dispatched |-> FALSE]

\* The messages the OS passes to the low-level hooks: <<kind, wParam>>.
HookMessages ==
    {<<"mouse", "WM_MOUSEMOVE">>, <<"mouse", "WM_LBUTTONDOWN">>,
     <<"mouse", "WM_RBUTTONDOWN">>, <<"mouse", "WM_MOUSEWHEEL">>,
     <<"mouse", "WM_LBUTTONUP">>,
     <<"keyboard", "WM_KEYDOWN">>, <<"keyboard", "WM_KEYUP">>}

\* Mutant: the hook procedure dispatches whatever it read.
Dispatches_Unconditional(kind, nCode, wParam, stopped, callback) ==
    /\ nCode >= 0
    /\ IF kind = "mouse"
       THEN wParam \in {"WM_MOUSEMOVE", "WM_LBUTTONDOWN", "WM_RBUTTONDOWN",
                        "WM_MOUSEWHEEL"}
       ELSE wParam = "WM_KEYDOWN"

\* mouseHookProc's and keyboardHookProc's condition for calling the
\* callback.
Dispatches(kind, nCode, wParam, stopped, callback) ==
    /\ nCode >= 0
    /\ ~stopped
    /\ callback # "nil"
    /\ IF kind = "mouse"
       THEN wParam \in {"WM_MOUSEMOVE", "WM_LBUTTONDOWN", "WM_RBUTTONDOWN",
                        "WM_MOUSEWHEEL"}
       ELSE wParam = "WM_KEYDOWN"

\* the handles among hs that are not 0, as UnhookWindowsHookEx is called
\* with them
Unhooked(hs) == SelectSeq(hs, LAMBDA h : h # 0)

\* Mutant: StopActivityMonitoring leaves the handles in the fields.
StopHooks_KeepsHandles(p) ==
    [p EXCEPT !.stopped = TRUE, !.activityCallback = "nil",
              !.installed = @ \ {p.mouseHook, p.keyboardHook},
              !.unhooks = @ \o Unhooked(<<p.mouseHook, p.keyboardHook>>)]

\* StopActivityMonitoring's critical section.
StopHooks(p) ==
    [p EXCEPT !.stopped = TRUE, !.activityCallback = "nil",
              !.installed = @ \ {p.mouseHook, p.keyboardHook},
              !.unhooks = @ \o Unhooked(<<p.mouseHook, p.keyboardHook>>),
              !.mouseHook = 0, !.keyboardHook = 0]

\* StartActivityMonitoring: the callback is stored and stopped cleared under
\* p.mu.
StartActivityMonitoring ==
    /\ probe.start = "new"
    /\ probe.mu = ""
    /\ probe' = [probe EXCEPT !.activityCallback = "sink", !.stopped = FALSE,
                              !.start = "mouse"]
    /\ UNCHANGED <<now, queueVars, collectorVars, urlVars, svcVars, event,
                   boot, lk, hk, reply>>

\* SetWindowsHookEx(WH_MOUSE_LL): the handle is stored, or 0 is returned and
\* StartActivityMonitoring returns an error.
SetMouseHook ==
    /\ probe.start = "mouse"
    /\ \/ probe' = [probe EXCEPT !.installed = @ \cup {Handle("mouse")},
                                 !.installs = Append(@, "mouse"),
                                 !.mouseHook = Handle("mouse"),
                                 !.start = "keyboard"]
       \/ probe' = [probe EXCEPT !.start = "error"]
    /\ UNCHANGED <<now, queueVars, collectorVars, urlVars, svcVars, event,
                   boot, lk, hk, reply>>

\* SetWindowsHookEx(WH_KEYBOARD_LL): the handle is stored and nil returned,
\* or the mouse hook is removed, its field cleared and an error returned.
SetKeyboardHook ==
    /\ probe.start = "keyboard"
    /\ \/ probe' = [probe EXCEPT !.installed = @ \cup {Handle("keyboard")},
                                 !.installs = Append(@, "keyboard"),
                                 !.keyboardHook = Handle("keyboard"),
                                 !.start = "ok"]
       \/ probe' = [probe EXCEPT !.installed = @ \ {probe.mouseHook},
                                 !.unhooks = Append(@, probe.mouseHook),
                                 !.mouseHook = 0,
                                 !.start = "error"]
    /\ UNCHANGED <<now, queueVars, collectorVars, urlVars, svcVars, event,
                   boot, lk, hk, reply>>

\* StopActivityMonitoring is called, once StartActivityMonitoring has
\* returned: p.mu.Lock().
StopMonitoringLock ==
    /\ probe.start \in {"ok", "error"}
    /\ probe.stop = "idle"
    /\ probe.stops < MaxProbeStops
    /\ probe.mu = ""
    /\ probe' = [probe EXCEPT !.mu = "stop", !.stop = "locked"]
    /\ UNCHANGED <<now, queueVars, collectorVars, urlVars, svcVars, event,
                   boot, lk, hk, reply>>

StopMonitoringHooks ==
    /\ probe.stop = "locked"
    /\ probe' = [StopHooks(probe) EXCEPT !.stop = "unlock"]
    /\ UNCHANGED <<now, queueVars, collectorVars, urlVars, svcVars, event,
                   boot, lk, hk, reply>>

\* p.mu.Unlock(), the sleep, return nil.
StopMonitoringReturn ==
    /\ probe.stop = "unlock"
    /\ probe' = [probe EXCEPT !.mu = "", !.stop = "idle", !.stops = @ + 1]
    /\ UNCHANGED <<now, queueVars, collectorVars, urlVars, svcVars, event,
                   boot, lk, hk, reply>>

\* The OS calls the procedure of an installed hook.
HookProcEnter ==
    /\ hk.pc = "idle"
    /\ probe.entered < MaxHookCalls
    /\ \E m \in HookMessages, nCode \in {-1, 0} :
          /\ Handle(m[1]) \in probe.installed
          /\ hk' = [HookIdle EXCEPT !.pc = "lock", !.kind = m[1],
                                    !.nCode = nCode, !.wParam = m[2]]
    /\ probe' = [probe EXCEPT !.entered = @ + 1]
    /\ UNCHANGED <<now, queueVars, collectorVars, urlVars, svcVars, event,
                   boot, lk, reply>>

\* p.mu.Lock()
HookProcLock ==
    /\ hk.pc = "lock"
    /\ probe.mu = ""
    /\ probe' = [probe EXCEPT !.mu = "hook"]
    /\ hk' = [hk EXCEPT !.pc = "read"]
    /\ UNCHANGED <<now, queueVars, collectorVars, urlVars, svcVars, event,
                   boot, lk, reply>>

\* stopped := p.stopped; callback := p.activityCallback; p.mu.Unlock()
HookProcRead ==
    /\ hk.pc = "read"
    /\ hk' = [hk EXCEPT !.pc = "decide", !.stopped = probe.stopped,
                        !.callback = probe.activityCallback]
    /\ probe' = [probe EXCEPT !.mu = ""]
    /\ UNCHANGED <<now, queueVars, collectorVars, urlVars, svcVars, event,
                   boot, lk, reply>>

\* The condition, and callback(ActivityEvent{...}) if it holds.
HookProcDispatch ==
    /\ hk.pc = "decide"
    /\ IF Dispatches(hk.kind, hk.nCode, hk.wParam, hk.stopped, hk.callback)
       THEN /\ probe' = [probe EXCEPT !.sunk = @ + 1]
            /\ hk' = [hk EXCEPT !.pc = "chain", !.dispatched = TRUE]
       ELSE /\ hk' = [hk EXCEPT !.pc = "chain"]
            /\ UNCHANGED probe
    /\ UNCHANGED <<now, queueVars, collectorVars, urlVars, svcVars, event,
                   boot, lk, reply>>

\* procCallNextHookEx.Call(0, nCode, wParam, lParam); return ret.
CallNextHookEx ==
    /\ hk.pc = "chain"
    /\ probe' = [probe EXCEPT !.chained = @ + 1]
    /\ hk' = [hk EXCEPT !.pc = "idle"]
    /\ UNCHANGED <<now, queueVars, collectorVars, urlVars, svcVars, event,
                   boot, lk, reply>>

\* ---- startup
\* runtime.GOOS of the build: the three with a backend file, and any other.
Builds == {"windows", "darwin", "linux", "other"}

\* The errors NewPlatform can return, by their dynamic type.
NoError == "nil"
ErrorString == "*errors.errorString"
UnsupportedPlatformError == "*platform.UnsupportedPlatformError"

\* NewPlatform with the constructors the build for goos is compiled with:
\* the error it returns.
NewPlatform(goos) ==
    CASE goos = "windows" -> NoError
      [] goos = "darwin" -> ErrorString
      [] goos = "linux" -> ErrorString
      [] OTHER -> UnsupportedPlatformError

\* main on entry, and main once trackingService.Start has returned nil on
\* the Windows build.
BootEntry(goos) == [goos |-> goos, pc |-> "main", err |-> NoError]
BootRunning == [goos |-> "windows", pc |-> "running", err |-> NoError]

\* The trackers and the orchestrator as NewTrackingService and Start leave
\* them, with the thresholds of the configuration.
TrackersStarted(idleThreshold, awayThreshold, budget) ==
    /\ pc = [t \in Threads |-> IF t = "poll" THEN "cw1" ELSE Home(t)]
    /\ loc = [t \in Threads |-> LocIdle]
    /\ ts = [stopped |-> FALSE, currentWindow |-> NoWindow,
             currentState |-> StateActive, lastEventTime |-> NoTime]
    /\ at = [stopped |-> FALSE, currentState |-> StateActive,
             lastActivity |-> 0, idleThreshold |-> idleThreshold,
             awayThreshold |-> awayThreshold]
    /\ wt = [stopped |-> FALSE, currentWindow |-> NoWindow]
    /\ hooks = TRUE
    /\ rounds = budget
    /\ hist = [lastAdded |-> NoTime, states |-> <<>>, stopLog |-> <<>>]
    /\ event = NoEvent
    /\ probe = ProbeNew
    /\ hk = HookIdle
    /\ reply = NoReply

\* The orchestrator after NewTrackingService and Start.
ServiceStarted(idleThreshold, awayThreshold, budget) ==
    /\ TrackersStarted(idleThreshold, awayThreshold, budget)
    /\ boot = BootRunning
    /\ lk = LocksFree

ServiceIdle == ServiceStarted(IdleThreshold, AwayThreshold, MaxRounds)

\* Mutant: hasWindowChanged compares the whole struct.
HasWindowChanged_AnyField(current, new) == current = NoWindow \/ current # new

\* hasWindowChanged: no window yet, or another process id, title,
\* application or visibility.
HasWindowChanged(current, new) ==
    \/ current = NoWindow
    \/ current.ProcessID # new.ProcessID
    \/ current.Title # new.Title
    \/ current.Application # new.Application
    \/ current.IsVisible # new.IsVisible

\* checkState's switch on idleDuration, with its arms swapped.
NewState_IdleFirst(idleDuration, idleThreshold, awayThreshold) ==
    IF idleDuration >= idleThreshold /\ idleDuration <= awayThreshold
    THEN StateIdle
    ELSE IF idleDuration >= awayThreshold THEN StateAway
    ELSE StateActive

\* Mutant: checkState goes offline where it goes away.
NewState_Offline(idleDuration, idleThreshold, awayThreshold) ==
    IF idleDuration >= awayThreshold THEN StateOffline
    ELSE IF idleDuration >= idleThreshold THEN StateIdle
    ELSE StateActive

\* checkState's switch on idleDuration.
NewState(idleDuration, idleThreshold, awayThreshold) ==
    IF idleDuration >= awayThreshold THEN StateAway
    ELSE IF idleDuration >= idleThreshold THEN StateIdle
    ELSE StateActive

\* ---- moving a goroutine
Jump(t, p, l) ==
    /\ pc' = [pc EXCEPT ![t] = p]
    /\ loc' = [loc EXCEPT ![t] = l]

\* The callback chain of t has returned: onWindowChange goes on to its own
\* createEvent, every other caller is back at its loop.
Return(t) ==
    IF loc[t].k = "win"
    THEN Jump(t, "ce1", LocIdle)
    ELSE Jump(t, Home(t), LocIdle)

Logged(m) == [hist EXCEPT !.stopLog = Append(@, m)]

\* ---- window tracker
\* pollLoop's select takes the ticker.
PollTick ==
    /\ pc["poll"] = "select"
    /\ rounds > 0
    /\ rounds' = rounds - 1
    /\ Jump("poll", "cw1", LocIdle)
    /\ UNCHANGED <<now, ts, at, wt, hooks, hist, ecEvents, ecStopped>>
    /\ UNCHANGED nonSvcVars

\* pollLoop's select takes the closed stop channel: return, wg.Done.
PollExit ==
    /\ pc["poll"] = "select"
    /\ wt.stopped
    /\ Jump("poll", "done", LocIdle)
    /\ UNCHANGED <<now, ts, at, wt, hooks, rounds, hist, ecEvents, ecStopped>>
    /\ UNCHANGED nonSvcVars

\* checkWindow: the first stop check, then GetActiveWindow, which may fail.
CheckWindowGetOf(desktop) ==
    /\ pc["poll"] = "cw1"
    /\ IF wt.stopped
       THEN Jump("poll", Home("poll"), LocIdle)
       ELSE \/ Jump("poll", Home("poll"), LocIdle)
            \/ \E w \in desktop :
                   Jump("poll", "cw2", [LocIdle EXCEPT !.w = w])
    /\ UNCHANGED <<now, ts, at, wt, hooks, rounds, hist, ecEvents, ecStopped>>
    /\ UNCHANGED nonSvcVars

CheckWindowGet == CheckWindowGetOf(Windows)

\* checkWindow: the second stop check, then the critical section that compares
\* and stores the window. (The check and the section are one step: the close
\* of wt.stopChan neither reads nor writes wt.currentWindow.)
CheckWindowCompare ==
    /\ pc["poll"] = "cw2"
    /\ IF wt.stopped
       THEN Jump("poll", Home("poll"), LocIdle) /\ UNCHANGED wt
       ELSE IF HasWindowChanged(wt.currentWindow, loc["poll"].w)
            THEN /\ wt' = [wt EXCEPT !.currentWindow = loc["poll"].w]
                 /\ Jump("poll", "cw3", loc["poll"])
            ELSE Jump("poll", Home("poll"), LocIdle) /\ UNCHANGED wt
    /\ UNCHANGED <<now, ts, at, hooks, rounds, hist, ecEvents, ecStopped>>
    /\ UNCHANGED nonSvcVars

\* checkWindow: the final stop check, then wt.onChange(window).
CheckWindowNotify ==
    /\ pc["poll"] = "cw3"
    /\ IF wt.stopped
       THEN Jump("poll", Home("poll"), LocIdle)
       ELSE Jump("poll", "ow", loc["poll"])
    /\ UNCHANGED <<now, ts, at, wt, hooks, rounds, hist, ecEvents, ecStopped>>
    /\ UNCHANGED nonSvcVars

\* ---- orchestrator callbacks
\* onWindowChange: ts.currentWindow = window under ts.mu.
OnWindowChange ==
    /\ pc["poll"] = "ow"
    /\ ts' = [ts EXCEPT !.currentWindow = loc["poll"].w]
    /\ Jump("poll", "ra", LocIdle)
    /\ UNCHANGED <<now, at, wt, hooks, rounds, hist, ecEvents, ecStopped>>
    /\ UNCHANGED nonSvcVars

\* RecordActivity's critical section: lastActivity = time.Now(); then
\* setState(StateActive) unless the state is active already. onWindowChange
\* calls createEvent(window, nil) after it.
RecordActivity ==
    /\ pc["poll"] = "ra"
    /\ at' = [at EXCEPT !.lastActivity = now]
    /\ IF at.currentState # StateActive
       THEN Jump("poll", "ss1", [LocIdle EXCEPT !.st = StateActive,
                                               !.k = "win"])
       ELSE Jump("poll", "ce1", LocIdle)
    /\ UNCHANGED <<now, ts, wt, hooks, rounds, hist, ecEvents, ecStopped>>
    /\ UNCHANGED nonSvcVars

\* ---- activity tracker
\* stateCheckLoop's select takes the ticker.
CheckTick ==
    /\ pc["tick"] = "select"
    /\ rounds > 0
    /\ rounds' = rounds - 1
    /\ Jump("tick", "cs1", LocIdle)
    /\ UNCHANGED <<now, ts, at, wt, hooks, hist, ecEvents, ecStopped>>
    /\ UNCHANGED nonSvcVars

\* stateCheckLoop's select takes the closed stop channel: return, wg.Done.
CheckExit ==
    /\ pc["tick"] = "select"
    /\ at.stopped
    /\ Jump("tick", "done", LocIdle)
    /\ UNCHANGED <<now, ts, at, wt, hooks, rounds, hist, ecEvents, ecStopped>>
    /\ UNCHANGED nonSvcVars

\* checkState: the stop check, the critical section that reads lastActivity
\* and currentState, and the switch. (Its second stop check is followed by
\* setState's own with nothing in between; SetState makes it.)
CheckState ==
    /\ pc["tick"] = "cs1"
    /\ IF at.stopped
       THEN Jump("tick", Home("tick"), LocIdle)
       ELSE LET newState == NewState(now - at.lastActivity, at.idleThreshold,
                                     at.awayThreshold)
            IN  IF newState # at.currentState
                THEN Jump("tick", "ss1", [LocIdle EXCEPT !.st = newState])
                ELSE Jump("tick", Home("tick"), LocIdle)
    /\ UNCHANGED <<now, ts, at, wt, hooks, rounds, hist, ecEvents, ecStopped>>
    /\ UNCHANGED nonSvcVars

\* A hook procedure runs: it reads p.stopped and p.activityCallback under
\* p.mu and, if the callback is there, builds the event with time.Now().
HookProc ==
    /\ pc["hook"] = "idle"
    /\ hooks
    /\ rounds > 0
    /\ rounds' = rounds - 1
    /\ Jump("hook", "ha", [LocIdle EXCEPT !.tnow = now])
    /\ UNCHANGED <<now, ts, at, wt, hooks, hist, ecEvents, ecStopped>>
    /\ UNCHANGED nonSvcVars

\* handleActivityEvent's critical section: lastActivity = event.Timestamp;
\* then setState(StateActive) unless the state is active already.
HandleActivityEvent ==
    /\ pc["hook"] = "ha"
    /\ at' = [at EXCEPT !.lastActivity = loc["hook"].tnow]
    /\ IF at.currentState # StateActive
       THEN Jump("hook", "ss1", [LocIdle EXCEPT !.st = StateActive])
       ELSE Jump("hook", Home("hook"), LocIdle)
    /\ UNCHANGED <<now, ts, wt, hooks, rounds, hist, ecEvents, ecStopped>>
    /\ UNCHANGED nonSvcVars

\* setState: the stop check, then the critical section that swaps the state.
\* (One step: the close of at.stopChan does not touch at.currentState.)
SetState(t) ==
    /\ pc[t] = "ss1"
    /\ IF at.stopped
       THEN Return(t) /\ UNCHANGED at
       ELSE /\ at' = [at EXCEPT !.currentState = loc[t].st]
            /\ IF at.currentState # loc[t].st
               THEN Jump(t, "ss2", loc[t])
               ELSE Return(t)
    /\ UNCHANGED <<now, ts, wt, hooks, rounds, hist, ecEvents, ecStopped>>
    /\ UNCHANGED nonSvcVars

\* Mutant: setState returns without calling at.onStateChange.
SetStateNotify_NeverCalls(t) ==
    /\ pc[t] = "ss2"
    /\ Return(t)
    /\ UNCHANGED <<now, ts, at, wt, hooks, rounds, hist, ecEvents, ecStopped>>
    /\ UNCHANGED nonSvcVars

\* setState: the final stop check, then at.onStateChange(newState).
SetStateNotify(t) ==
    /\ pc[t] = "ss2"
    /\ IF at.stopped THEN Return(t) ELSE Jump(t, "os", loc[t])
    /\ UNCHANGED <<now, ts, at, wt, hooks, rounds, hist, ecEvents, ecStopped>>
    /\ UNCHANGED nonSvcVars

\* ---- setState, one statement at a time
\* setState: the first stop check.
SetStateCheck(t) ==
    /\ pc[t] = "ss1"
    /\ IF at.stopped THEN Return(t) ELSE Jump(t, "ss1w", loc[t])
    /\ UNCHANGED <<now, ts, at, wt, hooks, rounds, hist, ecEvents, ecStopped>>
    /\ UNCHANGED nonSvcVars

\* setState: the critical section that swaps the state.
SetStateWrite(t) ==
    /\ pc[t] = "ss1w"
    /\ at' = [at EXCEPT !.currentState = loc[t].st]
    /\ IF at.currentState # loc[t].st
       THEN Jump(t, "ss2", loc[t])
       ELSE Return(t)
    /\ UNCHANGED <<now, ts, wt, hooks, rounds, hist, ecEvents, ecStopped>>
    /\ UNCHANGED nonSvcVars

\* setState: the final stop check.
SetStateFinal(t) ==
    /\ pc[t] = "ss2"
    /\ IF at.stopped THEN Return(t) ELSE Jump(t, "ss2c", loc[t])
    /\ UNCHANGED <<now, ts, at, wt, hooks, rounds, hist, ecEvents, ecStopped>>
    /\ UNCHANGED nonSvcVars

\* setState: at.logger.Info, then at.onStateChange(newState).
SetStateCall(t) ==
    /\ pc[t] = "ss2c"
    /\ Jump(t, "os", loc[t])
    /\ UNCHANGED <<now, ts, at, wt, hooks, rounds, hist, ecEvents, ecStopped>>
    /\ UNCHANGED nonSvcVars

\* onActivityStateChange: swap ts.currentState under ts.mu; createEvent if it
\* changed.
OnActivityStateChange(t) ==
    /\ pc[t] = "os"
    /\ ts' = [ts EXCEPT !.currentState = loc[t].st]
    /\ IF ts.currentState # loc[t].st
       THEN Jump(t, "ce1", loc[t])
       ELSE Return(t)
    /\ UNCHANGED <<now, at, wt, hooks, rounds, hist, ecEvents, ecStopped>>
    /\ UNCHANGED nonSvcVars

\* ---- createEvent
\* createEvent: read ts.stopped under the read lock; return if it is set.
CreateEventCheck(t) ==
    /\ pc[t] = "ce1"
    /\ IF ts.stopped THEN Return(t) ELSE Jump(t, "ce2", loc[t])
    /\ UNCHANGED <<now, ts, at, wt, hooks, rounds, hist, ecEvents, ecStopped>>
    /\ UNCHANGED nonSvcVars

\* createEvent: now := time.Now(); the event is built from it.
CreateEventNow(t) ==
    /\ pc[t] = "ce2"
    /\ Jump(t, "ce3", [loc[t] EXCEPT !.tnow = now])
    /\ UNCHANGED <<now, ts, at, wt, hooks, rounds, hist, ecEvents, ecStopped>>
    /\ UNCHANGED nonSvcVars

\* createEvent: ts.eventCollector.AddEvent(event), its critical section.
CreateEventAdd(t) ==
    /\ pc[t] = "ce3"
    /\ LET r == AddLocked(ecEvents, loc[t].tnow, BatchSize)
       IN  /\ ecEvents' = r.buf
           /\ Jump(t, IF r.flush THEN "ce_cb" ELSE "ce4",
                   [loc[t] EXCEPT !.taken = r.taken])
    /\ hist' = [hist EXCEPT !.lastAdded = loc[t].tnow,
                            !.states = IF loc[t].st = "" THEN @
                                       ELSE Append(@, loc[t].st)]
    /\ UNCHANGED <<now, ts, at, wt, hooks, rounds, ecStopped>>
    /\ UNCHANGED nonSvcVars

\* AddEvent, after the lock is released: onBatchReady(events) on the caller's
\* goroutine.
CreateEventBatch(t) ==
    /\ pc[t] = "ce_cb"
    /\ Jump(t, "ce4", [loc[t] EXCEPT !.taken = <<>>])
    /\ UNCHANGED <<now, ts, at, wt, hooks, rounds, hist, ecEvents, ecStopped>>
    /\ UNCHANGED nonSvcVars

\* createEvent: ts.lastEventTime = now, without a lock.
CreateEventLast(t) ==
    /\ pc[t] = "ce4"
    /\ ts' = [ts EXCEPT !.lastEventTime = loc[t].tnow]
    /\ Return(t)
    /\ UNCHANGED <<now, at, wt, hooks, rounds, hist, ecEvents, ecStopped>>
    /\ UNCHANGED nonSvcVars

\* ---- the collector's and the orchestrator's workers
\* autoFlushLoop's select takes the ticker: Flush's critical section.
FlushTick ==
    /\ pc["flush"] = "select"
    /\ LET r == FlushLocked(ecEvents)
       IN  /\ ecEvents' = r.buf
           /\ Jump("flush", IF r.flush THEN "fl_cb" ELSE "select",
                   [LocIdle EXCEPT !.taken = r.taken])
    /\ UNCHANGED <<now, ts, at, wt, hooks, rounds, hist, ecStopped>>
    /\ UNCHANGED nonSvcVars

\* autoFlushLoop's Flush, after the lock is released: onBatchReady(events).
FlushBatch ==
    /\ pc["flush"] = "fl_cb"
    /\ Jump("flush", Home("flush"), LocIdle)
    /\ UNCHANGED <<now, ts, at, wt, hooks, rounds, hist, ecEvents, ecStopped>>
    /\ UNCHANGED nonSvcVars

\* autoFlushLoop's select takes the closed stop channel: return, wg.Done.
FlushExit ==
    /\ pc["flush"] = "select"
    /\ ecStopped
    /\ Jump("flush", "done", LocIdle)
    /\ UNCHANGED <<now, ts, at, wt, hooks, rounds, hist, ecEvents, ecStopped>>
    /\ UNCHANGED nonSvcVars

\* queueProcessor's select takes the closed ts.stopChan: processQueue once
\* more (the drain cycle of the queue model), return, wg.Done.
DrainExit ==
    /\ pc["drain"] = "select"
    /\ ts.stopped
    /\ Jump("drain", "done", LocIdle)
    /\ UNCHANGED <<now, ts, at, wt, hooks, rounds, hist, ecEvents, ecStopped>>
    /\ UNCHANGED nonSvcVars

\* ---- TrackingService.Stop, run by goroutine t
\* After at.wg.Wait() ActivityTracker.Stop goes on to
\* platform.StopActivityMonitoring.
AfterActivityJoin_SkipsUnhook == "st_wt"

AfterActivityJoin == "st_unhook"

\* Stop is called from outside the orchestrator.
StopCall ==
    /\ pc["main"] = "idle"
    /\ Jump("main", "st1", LocIdle)
    /\ UNCHANGED <<now, ts, at, wt, hooks, rounds, hist, ecEvents, ecStopped>>
    /\ UNCHANGED nonSvcVars

\* Stop's critical section: return if ts.stopChan is closed, else set
\* ts.stopped and close it.
StopFlag(t) ==
    /\ pc[t] = "st1"
    /\ IF ts.stopped
       THEN Return(t) /\ UNCHANGED <<ts, hist>>
       ELSE /\ ts' = [ts EXCEPT !.stopped = TRUE]
            /\ hist' = Logged("flag")
            /\ Jump(t, "st_at", loc[t])
    /\ UNCHANGED <<now, at, wt, hooks, rounds, ecEvents, ecStopped>>
    /\ UNCHANGED nonSvcVars

\* ActivityTracker.Stop's critical section: return if at.stopChan is closed,
\* else close it.
StopActivity(t) ==
    /\ pc[t] = "st_at"
    /\ IF at.stopped
       THEN Jump(t, "st_wt", loc[t]) /\ UNCHANGED <<at, hist>>
       ELSE /\ at' = [at EXCEPT !.stopped = TRUE]
            /\ hist' = Logged("activity")
            /\ Jump(t, "st_at_wait", loc[t])
    /\ UNCHANGED <<now, ts, wt, hooks, rounds, ecEvents, ecStopped>>
    /\ UNCHANGED nonSvcVars

\* ActivityTracker.Stop: at.wg.Wait() returns once stateCheckLoop has.
StopActivityJoin(t) ==
    /\ pc[t] = "st_at_wait"
    /\ pc["tick"] = "done"
    /\ Jump(t, AfterActivityJoin, loc[t])
    /\ UNCHANGED <<now, ts, at, wt, hooks, rounds, hist, ecEvents, ecStopped>>
    /\ UNCHANGED nonSvcVars

\* platform.StopActivityMonitoring: p.stopped = true, the callback cleared,
\* both hooks removed.
StopActivityMonitoring(t) ==
    /\ pc[t] = "st_unhook"
    /\ hooks' = FALSE
    /\ hist' = Logged("unhook")
    /\ Jump(t, "st_wt", loc[t])
    /\ UNCHANGED <<now, ts, at, wt, rounds, ecEvents, ecStopped>>
    /\ UNCHANGED nonSvcVars

\* WindowTracker.Stop's critical section: return if wt.stopChan is closed,
\* else close it.
StopWindow(t) ==
    /\ pc[t] = "st_wt"
    /\ IF wt.stopped
       THEN Jump(t, "st_ec", loc[t]) /\ UNCHANGED <<wt, hist>>
       ELSE /\ wt' = [wt EXCEPT !.stopped = TRUE]
            /\ hist' = Logged("window")
            /\ Jump(t, "st_wt_wait", loc[t])
    /\ UNCHANGED <<now, ts, at, hooks, rounds, ecEvents, ecStopped>>
    /\ UNCHANGED nonSvcVars

\* WindowTracker.Stop: wt.wg.Wait() returns once pollLoop has.
StopWindowJoin(t) ==
    /\ pc[t] = "st_wt_wait"
    /\ pc["poll"] = "done"
    /\ Jump(t, "st_ec", loc[t])
    /\ UNCHANGED <<now, ts, at, wt, hooks, rounds, hist, ecEvents, ecStopped>>
    /\ UNCHANGED nonSvcVars

\* EventCollector.Stop's first critical section: return if ec.stopChan is
\* closed, else close it.
StopCollector(t) ==
    /\ pc[t] = "st_ec"
    /\ IF ecStopped
       THEN Jump(t, "st_join", loc[t]) /\ UNCHANGED <<ecStopped, hist>>
       ELSE /\ ecStopped' = TRUE
            /\ hist' = Logged("collector")
            /\ Jump(t, "st_ec_wait", loc[t])
    /\ UNCHANGED <<now, ts, at, wt, hooks, rounds, ecEvents>>
    /\ UNCHANGED nonSvcVars

\* EventCollector.Stop: ec.wg.Wait() returns once autoFlushLoop has.
StopCollectorJoin(t) ==
    /\ pc[t] = "st_ec_wait"
    /\ pc["flush"] = "done"
    /\ Jump(t, "st_ec_drain", loc[t])
    /\ UNCHANGED <<now, ts, at, wt, hooks, rounds, hist, ecEvents, ecStopped>>
    /\ UNCHANGED nonSvcVars

\* EventCollector.Stop's second critical section: take the residue.
StopCollectorDrain(t) ==
    /\ pc[t] = "st_ec_drain"
    /\ LET r == FlushLocked(ecEvents)
       IN  /\ ecEvents' = r.buf
           /\ Jump(t, IF r.flush THEN "st_ec_cb" ELSE "st_join",
                   [loc[t] EXCEPT !.taken = r.taken])
    /\ UNCHANGED <<now, ts, at, wt, hooks, rounds, hist, ecStopped>>
    /\ UNCHANGED nonSvcVars

\* EventCollector.Stop: onBatchReady(residue).
StopCollectorBatch(t) ==
    /\ pc[t] = "st_ec_cb"
    /\ hist' = Logged("residue")
    /\ Jump(t, "st_join", [loc[t] EXCEPT !.taken = <<>>])
    /\ UNCHANGED <<now, ts, at, wt, hooks, rounds, ecEvents, ecStopped>>
    /\ UNCHANGED nonSvcVars

\* Stop's select: ts.wg.Wait() has returned in the helper goroutine, or two
\* seconds have passed.
StopJoin(t) ==
    /\ pc[t] = "st_join"
    /\ hist' = Logged("join")
    /\ Jump(t, "st_flush", loc[t])
    /\ UNCHANGED <<now, ts, at, wt, hooks, rounds, ecEvents, ecStopped>>
    /\ UNCHANGED nonSvcVars

\* Stop's final ts.eventCollector.Flush(): its critical section.
StopFlush(t) ==
    /\ pc[t] = "st_flush"
    /\ hist' = Logged("flush")
    /\ LET r == FlushLocked(ecEvents)
       IN  /\ ecEvents' = r.buf
           /\ IF r.flush
              THEN Jump(t, "st_flush_cb", [loc[t] EXCEPT !.taken = r.taken])
              ELSE Return(t)
    /\ UNCHANGED <<now, ts, at, wt, hooks, rounds, ecStopped>>
    /\ UNCHANGED nonSvcVars

\* The final Flush, after the lock is released: onBatchReady(events); Stop
\* returns.
StopFlushBatch(t) ==
    /\ pc[t] = "st_flush_cb"
    /\ Return(t)
    /\ UNCHANGED <<now, ts, at, wt, hooks, rounds, hist, ecEvents, ecStopped>>
    /\ UNCHANGED nonSvcVars

\* Stop is invoked on the goroutine that runs a callback, in the callback's
\* place: onWindowChange on pollLoop's, onActivityStateChange on
\* stateCheckLoop's, onBatchReady on autoFlushLoop's.
CallbackAt(t) ==
    CASE t = "poll" -> "ow"
      [] t = "tick" -> "os"
      [] t = "flush" -> "fl_cb"

StopInCallback(t) ==
    /\ pc[t] = CallbackAt(t)
    /\ Jump(t, "st1", LocIdle)
    /\ UNCHANGED <<now, ts, at, wt, hooks, rounds, hist, ecEvents, ecStopped>>
    /\ UNCHANGED nonSvcVars

\* A goroutine inside Stop waits for a WaitGroup that only its own return can
\* release.
SelfJoin(t) ==
    \/ t = "tick" /\ pc[t] = "st_at_wait"
    \/ t = "poll" /\ pc[t] = "st_wt_wait"
    \/ t = "flush" /\ pc[t] = "st_ec_wait"

\* The wall clock advances.
TickSvc ==
    /\ now < MaxSvcTime
    /\ now' = now + 1
    /\ UNCHANGED <<svcVars, ecEvents, ecStopped>>
    /\ UNCHANGED nonSvcVars

\* The wall clock advances while the activity model runs.
TickActivity ==
    /\ now < MaxIdleTime
    /\ now' = now + 1
    /\ UNCHANGED <<svcVars, ecEvents, ecStopped>>
    /\ UNCHANGED nonSvcVars

\* The configurations of the activity model: away >= idle > 0.
Thresholds ==
    {c \in (1..MaxThreshold) \X (1..MaxThreshold) : c[1] <= c[2]}

\* ---- main
\* platformInstance, err := platform.NewPlatform()
NewPlatformCall ==
    /\ boot.pc = "main"
    /\ boot' = [boot EXCEPT !.pc = "platform", !.err = NewPlatform(boot.goos)]
    /\ UNCHANGED <<now, queueVars, collectorVars, urlVars, svcVars, event, lk,
                   probe, hk, reply>>

\* log.Fatal("Failed to initialize platform"): the process exits with 1.
PlatformFatal ==
    /\ boot.pc = "platform"
    /\ boot.err # NoError
    /\ boot' = [boot EXCEPT !.pc = "exit1"]
    /\ UNCHANGED <<now, queueVars, collectorVars, urlVars, svcVars, event, lk,
                   probe, hk, reply>>

\* The rest of main up to trackingService.Start(), which starts the trackers
\* or fails (a hook that cannot be installed) and is fatal.
ServiceStart ==
    /\ boot.pc = "platform"
    /\ boot.err = NoError
    /\ \/ boot' = [boot EXCEPT !.pc = "running"]
       \/ boot' = [boot EXCEPT !.pc = "exit1", !.err = ErrorString]
    /\ UNCHANGED <<now, queueVars, collectorVars, urlVars, svcVars, event, lk,
                   probe, hk, reply>>

\* ============================================================ specifications
InitQueue ==
    /\ now = 0
    /\ pending \in QueueLeftovers
    /\ QueueIdle
    /\ CollectorIdle
    /\ UrlIdle
    /\ ServiceIdle

NextQueue == OnBatchReady \/ DrainDequeue \/ DrainSend \/ Cleanup \/ TickQueue

SpecQueue == InitQueue /\ [][NextQueue]_vars

\* The queue with a database that can also fail the drain worker's UPDATE.
NextRetry == NextQueue \/ DrainSendRetryError

SpecRetry == InitQueue /\ [][NextRetry]_vars

\* The drain worker on a backlog.
InitBacklog ==
    /\ \E n \in BacklogSizes : BacklogIdle(n)
    /\ CollectorIdle
    /\ UrlIdle
    /\ ServiceIdle

NextBacklog == DrainDequeue \/ DrainSend

SpecBacklog == InitBacklog /\ [][NextBacklog]_vars

\* A client of the queue that dequeues and removes.
InitDequeue ==
    /\ now = MaxTime
    /\ pending \in QueuesHeld
    /\ QueueIdle
    /\ CollectorIdle
    /\ UrlIdle
    /\ ServiceIdle

NextDequeue == DequeueCall \/ RemoveCall

SpecDequeue == InitDequeue /\ [][NextDequeue]_vars

InitCollector ==
    /\ now = 0
    /\ pending = {}
    /\ QueueIdle
    /\ CollectorIdle
    /\ UrlIdle
    /\ ServiceIdle

NextCollector ==
    \/ \E c \in Clients : AddCall(c)
    \/ \E c \in Clients : AddAppend(c)
    \/ \E c \in Clients : Callback(c)
    \/ \E c \in Clients : FlushCall(c)
    \/ LoopTick
    \/ LoopCallback
    \/ LoopExit
    \/ \E c \in Clients : StopClose(c)
    \/ \E c \in Clients : StopDrain(c)
    \/ \E c \in Clients : StopCallback(c)

SpecCollector == InitCollector /\ [][NextCollector]_vars

\* The backend client, called with every outcome a POST can have, with an empty
\* queue and everything else at rest.
NextSend == \E outcome \in HttpStatuses \cup {NoResponse} : SendCall(outcome)

SpecSend == InitCollector /\ [][NextSend]_vars

InitURL ==
    /\ now = 0
    /\ pending = {}
    /\ QueueIdle
    /\ CollectorIdle
    /\ UrlIdle
    /\ ServiceIdle

NextURL ==
    \/ \E a \in Applications, t \in Titles, u \in Urls :
           StoreByApplicationAndTitle(a, t, u)
    \/ \E k \in DOMAIN urls : UrlGet(k)
    \/ \E a \in Applications, t \in Titles : LookupExact(a, t)
    \/ LookupFuzzy
    \/ UrlLoopCleanup
    \/ TickUrl

SpecURL == InitURL /\ [][NextURL]_vars

\* The URL store used under an application name that matches two browsers.
NextURLNames ==
    \/ \E a \in BrowserNames, t \in Titles, u \in Urls :
           StoreByApplicationAndTitle(a, t, u)
    \/ \E a \in BrowserNames, t \in Titles : LookupExact(a, t)
    \/ LookupFuzzy
    \/ UrlLoopCleanup
    \/ TickUrl

SpecURLNames == InitURL /\ [][NextURLNames]_vars

InitService ==
    /\ now = 0
    /\ pending = {}
    /\ QueueIdle
    /\ CollectorIdle
    /\ UrlIdle
    /\ ServiceIdle

Workers ==
    \/ PollTick \/ PollExit \/ CheckWindowGet \/ CheckWindowCompare
    \/ CheckWindowNotify \/ OnWindowChange \/ RecordActivity
    \/ CheckTick \/ CheckExit \/ CheckState
    \/ HookProc \/ HandleActivityEvent
    \/ \E t \in {"poll", "tick", "hook"} :
           \/ SetState(t) \/ SetStateNotify(t) \/ OnActivityStateChange(t)
           \/ CreateEventCheck(t) \/ CreateEventNow(t) \/ CreateEventAdd(t)
           \/ CreateEventBatch(t) \/ CreateEventLast(t)
    \/ FlushTick \/ FlushBatch \/ FlushExit
    \/ DrainExit
    \/ TickSvc

StopSteps(t) ==
    \/ StopFlag(t) \/ StopActivity(t) \/ StopActivityJoin(t)
    \/ StopActivityMonitoring(t) \/ StopWindow(t) \/ StopWindowJoin(t)
    \/ StopCollector(t) \/ StopCollectorJoin(t) \/ StopCollectorDrain(t)
    \/ StopCollectorBatch(t) \/ StopJoin(t) \/ StopFlush(t)
    \/ StopFlushBatch(t)

\* Stop is called from outside only.
NextService == Workers \/ StopCall \/ StopSteps("main")

SpecService == InitService /\ [][NextService]_vars

\* createEvent's URL for the windows of a browser and of another application,
\* with the extension's updates arriving through the url-update handler, over
\* a span of time shorter than the TTL.
NextEnrich ==
    \/ \E a \in Applications, t \in TabTitles, u \in Urls :
           HandleURLUpdate(a, t, u)
    \/ \E a \in Applications, t \in WindowTitles : LookupExact(a, t)
    \/ LookupFuzzy
    \/ CreateEventURL
    \/ \E a \in Applications \cup {<<>>}, t \in WindowTitles :
           CreateEventWithoutStore(a, t)

SpecEnrich == InitURL /\ [][NextEnrich]_vars

\* The url-update handler on request bodies of every shape, with the store's
\* sweeper and the clock.
NextIngress ==
    \/ \E body \in Bodies : HandleURLUpdateBody(body)
    \/ UrlLoopCleanup
    \/ TickUrl

SpecIngress == InitURL /\ [][NextIngress]_vars

\* The activity tracker with the input hooks, the state ticker and the
\* orchestrator's callback, under every configuration of the thresholds.
InitActivity ==
    /\ now = 0
    /\ pending = {}
    /\ QueueIdle
    /\ CollectorIdle
    /\ UrlIdle
    /\ \E c \in Thresholds : ServiceStarted(c[1], c[2], MaxActivityRounds)

NextActivity ==
    \/ CheckTick \/ CheckState
    \/ HookProc \/ HandleActivityEvent
    \/ \E t \in {"tick", "hook"} :
           \/ SetState(t) \/ SetStateNotify(t) \/ OnActivityStateChange(t)
           \/ CreateEventCheck(t) \/ CreateEventNow(t) \/ CreateEventAdd(t)
           \/ CreateEventBatch(t) \/ CreateEventLast(t)
    \/ TickActivity

SpecActivity == InitActivity /\ [][NextActivity]_vars

\* main from its entry, on every build. The trackers' variables hold what
\* Start gives them, and nothing of them moves before the service has
\* started.
InitStartup ==
    /\ now = 0
    /\ pending = {}
    /\ QueueIdle
    /\ CollectorIdle
    /\ UrlIdle
    /\ TrackersStarted(IdleThreshold, AwayThreshold, MaxActivityRounds)
    /\ \E g \in Builds : boot = BootEntry(g)
    /\ lk = LocksFree

NextStartup ==
    \/ NewPlatformCall
    \/ PlatformFatal
    \/ ServiceStart
    \/ boot.pc = "running" /\ NextActivity

SpecStartup == InitStartup /\ [][NextStartup]_vars

\* The goroutines of the running service and the one that calls Stop, one
\* statement at a time.
InitLocks == InitService

NextLocks == \E t \in LockThreads : LockStep(t)

SpecLocks == InitLocks /\ [][NextLocks]_vars

\* The window tracker over a desktop whose windows differ field by field,
\* with the orchestrator's callback, and Stop up to the return of
\* WindowTracker.Stop.
NextWindow ==
    \/ PollTick \/ PollExit \/ CheckWindowGetOf(WindowInfos)
    \/ CheckWindowCompare \/ CheckWindowNotify \/ OnWindowChange
    \/ RecordActivity
    \/ CreateEventCheck("poll") \/ CreateEventNow("poll")
    \/ CreateEventAdd("poll") \/ CreateEventBatch("poll")
    \/ CreateEventLast("poll")
    \/ CheckExit
    \/ StopCall \/ StopFlag("main") \/ StopActivity("main")
    \/ StopActivityJoin("main") \/ StopActivityMonitoring("main")
    \/ StopWindow("main") \/ StopWindowJoin("main")

SpecWindow == InitService /\ [][NextWindow]_vars

\* The Windows probe: StartActivityMonitoring once, StopActivityMonitoring
\* after it has returned, and the hook procedures the OS runs meanwhile.
NextProbe ==
    \/ StartActivityMonitoring \/ SetMouseHook \/ SetKeyboardHook
    \/ StopMonitoringLock \/ StopMonitoringHooks \/ StopMonitoringReturn
    \/ HookProcEnter \/ HookProcLock \/ HookProcRead \/ HookProcDispatch
    \/ CallNextHookEx

SpecProbe == InitService /\ [][NextProbe]_vars

\* The activity tracker with its callers (the window tracker's poll
\* goroutine, the hook thread, its own ticker), setState one statement at a
\* time, and Stop up to the return of ActivityTracker.Stop.
NextTrackerStop ==
    \/ PollTick \/ CheckWindowGet \/ CheckWindowCompare \/ CheckWindowNotify
    \/ OnWindowChange \/ RecordActivity
    \/ CheckTick \/ CheckExit \/ CheckState
    \/ HookProc \/ HandleActivityEvent
    \/ \E t \in {"poll", "tick", "hook"} :
           \/ SetStateCheck(t) \/ SetStateWrite(t) \/ SetStateFinal(t)
           \/ SetStateCall(t) \/ OnActivityStateChange(t)
           \/ CreateEventCheck(t) \/ CreateEventNow(t) \/ CreateEventAdd(t)
           \/ CreateEventBatch(t) \/ CreateEventLast(t)
    \/ TickSvc
    \/ StopCall \/ StopFlag("main") \/ StopActivity("main")
    \/ StopActivityJoin("main") \/ StopActivityMonitoring("main")

SpecTrackerStop == InitService /\ [][NextTrackerStop]_vars

\* Stop may also be invoked on the goroutine that runs a callback.
NextServiceReentrant ==
    \/ NextService
    \/ \E t \in {"poll", "tick", "flush"} : StopInCallback(t) \/ StopSteps(t)

SpecServiceReentrant == InitService /\ [][NextServiceReentrant]_vars

\* The URL store with its Stop.
NextURLStop == NextURL \/ UrlLoopExit \/ UrlStopClose \/ UrlStopReturn

SpecURLStop == InitURL /\ [][NextURLStop]_vars

\* ==================================================================== claims
\* C2 (as stated): when onBatchReady returns, every event of the batch is
\* either in a batch the backend answered 2xx or a row of pending_events.
C2_AckedOrQueued ==
    lastOp.op = "sink" =>
        \A e \in lastOp.events : lastOp.err = "nil" \/ e \in RowEvents(pending)

\* C2 (amended): when onBatchReady returns, either the backend answered 2xx;
\* or Enqueue committed and the event is a row of pending_events unless its
\* own INSERT failed; or Enqueue returned an error and no event of the batch
\* is a row (the transaction is all or nothing).
C2_AckedQueuedOrLogged ==
    lastOp.op = "sink" =>
        \A e \in lastOp.events :
            \/ lastOp.err = "nil" /\ e \in acked
            \/ /\ lastOp.err # "nil"
               /\ lastOp.enq = "nil"
               /\ (e \in RowEvents(pending)) <=> (e \notin lastOp.skipped)
            \/ /\ lastOp.err # "nil"
               /\ lastOp.enq # "nil"
               /\ lastOp.events \cap RowEvents(pending) = {}

\* A rejected batch of two events was committed as two rows.
C2_Witness ==
    /\ lastOp.op = "sink"
    /\ lastOp.err # "nil"
    /\ lastOp.enq = "nil"
    /\ Cardinality(lastOp.events) = 2
    /\ lastOp.events \subseteq RowEvents(pending)

\* C8 (as stated): an event that reached the sink and was not accepted by the
\* backend is still a row of pending_events unless Cleanup deleted it.
C8_OnlyCleanupDrops ==
    \A e \in sunk : e \in acked \/ e \in RowEvents(pending) \/ e \in cleaned

\* C8 (amended): an event that was committed to pending_events and was not
\* accepted by the backend is still a row unless Cleanup deleted it.
C8_OnlyCleanupDropsCommitted ==
    \A e \in committed : e \in acked \/ e \in RowEvents(pending) \/ e \in cleaned

\* Cleanup deleted the row of an event no send ever delivered, while a row
\* whose drain send failed is still queued.
C8_Witness ==
    /\ \E e \in committed : e \in cleaned /\ e \notin acked
    /\ \E r \in pending : r.retry > 0 /\ Unmarshal(r.data) \in sunk

\* C9: a CleanupOldEvents(t) step deletes exactly the rows with
\* created_at < now - t and retry_count > 10, of any device id, and leaves
\* every other row as it was.
C9_CleanupExact ==
    [][lastOp'.op = "cleanup" =>
        /\ pending' \subseteq pending
        /\ \A r \in pending :
              (r \notin pending') <=>
                  (r.created < now - lastOp'.olderThan /\ r.retry > 10)]_vars

\* Cleanup deleted the other device's row (11 retries) and kept this device's
\* row of the same age with exactly 10 retries.
C9_Witness ==
    /\ lastOp.op = "cleanup"
    /\ 101 \in cleaned
    /\ \E r \in pending :
          /\ r.retry = 10
          /\ r.created < now - lastOp.olderThan
          /\ r.dev = DeviceID

\* C1 (as stated): once the Stop that closed the channel has returned, every
\* event whose AddEvent call began before that return has been handed to the
\* callback exactly once, and the buffer is empty.
C1_DeliveredOnceByStop ==
    stopDone =>
        /\ ecEvents = <<>>
        /\ \A e \in calledInTime : Count(batches, e) = 1

\* C10: no lookup, by Get or by GetByApplicationAndTitle (exact or fuzzy),
\* returns an entry that is older than the TTL at the time of the lookup.
C10_NoExpiredReturned ==
    (lookup.pc = "done" /\ lookup.res.found) => lookup.at - lookup.res.ts <= TTL

\* C10's case: a lookup by application and title has come back empty while
\* the entry under its exact key was still in the map, expired and not yet
\* swept.
C10_Witness ==
    /\ lookup.pc = "done"
    /\ lookup.op = "GetByApplicationAndTitle"
    /\ ~lookup.res.found
    /\ MakeKey(lookup.app, lookup.title) \in DOMAIN urls
    /\ Expired(urls[MakeKey(lookup.app, lookup.title)], lookup.at, TTL)

\* C3: of two events added to the collector one after the other, the later
\* one's timestamp is not smaller than the earlier one's.
C3_TimestampsMonotone == [][hist'.lastAdded >= hist.lastAdded]_vars

\* C4: Stop reaches its milestones in the order flag, activity tracker
\* stopped, hooks uninstalled, window tracker stopped, collector stopped, (the
\* residue handed to onBatchReady, at most once, right after that,) workers
\* joined, final Flush; each tracker's loop has returned before the next
\* component is stopped, and the hooks are gone before the window tracker's
\* stop channel is closed.
C4_StopOrder ==
    LET log == SelectSeq(hist.stopLog, LAMBDA m : m # "residue")
    IN  /\ Len(log) <= Len(StopOrder)
        /\ log = SubSeq(StopOrder, 1, Len(log))
        /\ Cardinality({i \in DOMAIN hist.stopLog :
                           hist.stopLog[i] = "residue"}) <= 1
        /\ \A i \in DOMAIN hist.stopLog :
               hist.stopLog[i] = "residue" =>
                   i > 1 /\ hist.stopLog[i - 1] = "collector"
        /\ at.stopped => ts.stopped
        /\ ~hooks => at.stopped /\ pc["tick"] = "done"
        /\ wt.stopped => ~hooks
        /\ ecStopped => wt.stopped /\ pc["poll"] = "done"

\* C4's case: a Stop has gone through every milestone, the residue included.
C4_Witness ==
    hist.stopLog = <<"flag", "activity", "unhook", "window", "collector",
                     "residue", "join", "flush">>

\* C5: no goroutine that has entered Stop is left waiting for its own return,
\* whoever called Stop and from wherever.
C5_StopAlwaysReturns == \A t \in Threads : ~SelfJoin(t)

\* C6: a second Stop on a component does not panic on the close of a closed
\* channel (here: URLStore.Stop).
C6_SecondStopSafe == ~urlPanic

\* C7: no AddEvent on the collector begins once ts.stopped is set.
C7_NoAddAfterFlag ==
    [][(\E t \in Threads : pc[t] = "ce3" /\ pc'[t] # "ce3") => ~ts.stopped]_vars

C12_NoRepeatedStatus ==
    \A i \in DOMAIN hist.states :
        i > 1 => hist.states[i] # hist.states[i - 1]

\* C13: the state checkState derives is away if the idle duration reaches the
\* away threshold, else idle if it reaches the idle threshold, else active;
\* with equal thresholds idle is never derived. setState is called with the
\* derived state exactly when it differs from the current one.
C13_Derived ==
    LET delta == now - at.lastActivity
        state == CASE delta >= at.awayThreshold -> StateAway
                   [] delta < at.awayThreshold /\ delta >= at.idleThreshold
                          -> StateIdle
                   [] delta < at.awayThreshold /\ delta < at.idleThreshold
                          -> StateActive
    IN  /\ state \in {StateActive, StateIdle, StateAway}
        /\ at.idleThreshold = at.awayThreshold => state # StateIdle
        /\ IF state # at.currentState
           THEN pc'["tick"] = "ss1" /\ loc'["tick"].st = state
           ELSE pc'["tick"] = Home("tick")

C13_StateIsFunctionOfDelta ==
    [][(pc["tick"] = "cs1" /\ ~at.stopped /\ pc'["tick"] # "cs1")
          => C13_Derived]_vars

\* checkState has derived away at the threshold of a configuration whose
\* thresholds are equal.
C13_Witness ==
    /\ pc["tick"] = "ss1"
    /\ loc["tick"].st = StateAway
    /\ at.idleThreshold = at.awayThreshold
    /\ now - at.lastActivity = at.awayThreshold
    /\ at.currentState = StateActive

C15_CountAfterRemove ==
    drain.pc = "removed" =>
        GetPendingCount(pending, DeviceID)
            = IF drain.count - Len(drain.ids) > 0
              THEN drain.count - Len(drain.ids) ELSE 0

\* C15 (amended): after Dequeue(device, N) and Remove of the returned ids,
\* pending_count(device) is pre - delivered - deleted, where deleted counts
\* the selected rows that did not deserialise; the Dequeue alone leaves
\* pending_count at pre - deleted, which is pre when every selected row
\* deserialises.
C15_CountAfterRemoveAndDeletes ==
    /\ drain.pc = "removed" =>
           /\ GetPendingCount(pending, DeviceID)
                  = drain.count - Len(drain.ids) - drain.deleted
           /\ drain.count - Len(drain.ids) - drain.deleted >= 0
    /\ drain.pc = "dequeued" =>
           /\ GetPendingCount(pending, DeviceID) = drain.count - drain.deleted
           /\ Len(drain.ids) + drain.deleted <= MaxLimit

\* Two of three rows were dequeued and removed, one is left.
C15_Witness ==
    /\ drain.pc = "removed"
    /\ drain.count = 3
    /\ Len(drain.ids) = 2
    /\ drain.deleted = 0
    /\ GetPendingCount(pending, DeviceID) = 1

\* C16 (as stated): a GetByApplicationAndTitle(a, t) that starts while the
\* store holds an entry written by StoreByApplicationAndTitle(a, t, u) for a
\* browser a, not older than the TTL and the latest written for (a, t),
\* returns u (its exact Get hits), whatever other entries there are.
C16_StoreThenLookup ==
    [][(lookup.pc # "fuzzy" /\ lookup' # lookup
            /\ lookup'.op = "GetByApplicationAndTitle")
          => LET a == lookup'.application
                 mine == {k \in DOMAIN urls :
                             /\ Storers(k) = {a}
                             /\ \E n \in NormalizeApplicationName(a) :
                                    k = MakeKey(n, lookup'.title)}
             IN  \A k \in mine :
                     (/\ NormalizeApplicationName(a) \subseteq BrowserTags
                      /\ \A j \in mine : urls[j].url <= urls[k].url
                      /\ now - urls[k].ts <= TTL)
                         => /\ lookup'.pc = "done"
                            /\ lookup'.res = Hit(urls[k])]_vars

\* C17: an AddEvent whose append brings the buffer to at most BatchSize - 1
\* events keeps them all and returns without the callback; one whose append
\* brings it to BatchSize empties the buffer and goes on to the callback with
\* the whole buffer in insertion order, and that callback hands over exactly
\* this batch, once.
C17_FlushAtBatchSize ==
    [][\A c \in Clients :
          /\ (client[c].pc = "add" /\ client'[c] # client[c])
                => LET b == Append(ecEvents, client[c].ev)
                   IN  IF Len(b) <= BatchSize - 1
                       THEN /\ ecEvents' = b
                            /\ client'[c].pc = "idle"
                            /\ batches' = batches
                       ELSE /\ Len(b) = BatchSize
                            /\ ecEvents' = <<>>
                            /\ client'[c].pc = "add_cb"
                            /\ client'[c].taken = b
                            /\ batches' = batches
          /\ (client[c].pc = "add_cb" /\ client'[c] # client[c])
                => /\ batches' = Append(batches, client[c].taken)
                   /\ client'[c].pc = "idle"]_vars

\* An AddEvent has taken a full buffer and is about to call the callback.
C17_Witness ==
    \E c \in Clients :
        /\ client[c].pc = "add_cb"
        /\ Len(client[c].taken) = BatchSize
        /\ ecEvents = <<>>

\* C18: the URL of an event is the extension's when the store lookup hits,
\* else the one parsed from the title when the parser yields one, else
\* absent; an event for a window whose application is no known browser has
\* no URL, whatever the store holds.
C18_UrlPrecedence ==
    [][(event' # event \/ (lookup.pc = "done" /\ lookup'.pc = "idle"))
          => LET a == event'.application
                 u == event'.url
                 hit == /\ lookup.pc = "done"
                        /\ lookup'.pc = "idle"
                        /\ lookup.res.found
                 parsed == ExtractDomainFromTitle(event'.title, a)
             IN  /\ ~IsBrowser(a, TitleBrowsers) => u = NoURL
                 /\ hit => u = ExtensionURL(lookup.res.url)
                 /\ u.source = "extension" => hit
                 /\ (~hit /\ <<>> \notin parsed) => u.source = "title"
                 /\ u.source = "title" => u.parsed \in parsed \ {<<>>}
                 /\ u.source = "none" => <<>> \in parsed]_vars

\* An event of a browser window carries the extension's URL although its
\* title parses to a URL as well.
C18_Witness ==
    /\ event.url.source = "extension"
    /\ IsBrowser(event.application, TitleBrowsers)
    /\ <<>> \notin ExtractDomainFromTitle(event.title, event.application)

\* C20 (as stated): for a browser window titled "Google - YouTube" the URL
\* parsed from the title is https://youtube.com.
C20_DestinationSite ==
    (/\ event.title = <<"G", "o", "o", "g", "l", "e", " ", "-", " ", "Y", "o", "u", "T", "u", "b", "e">>
     /\ IsBrowser(event.application, TitleBrowsers)
     /\ event.url.source = "title")
        => event.url.parsed
               = <<"h", "t", "t", "p", "s", ":", "/", "/", "y", "o", "u", "t", "u", "b", "e", ".", "c", "o", "m">>

\* C19: a GetByApplicationAndTitle for a browser whose title is T followed
\* by a browser suffix returns the URL of the unexpired entry stored for that
\* browser under T, whatever other unexpired entries the browser has (taken
\* in the case where nothing is stored under the looked-up title itself, so
\* that the answer comes from the scan over the stored keys).
C19_SuffixLookup ==
    [][(/\ lookup' # lookup
        /\ lookup'.pc = "done"
        /\ lookup'.op = "GetByApplicationAndTitle"
        /\ lookup'.app \in BrowserTags
        /\ MakeKey(lookup'.app, lookup'.title) \notin DOMAIN urls)
          => \A i \in DOMAIN BrowserSuffixes :
                 LET title == lookup'.title
                     k == MakeKey(lookup'.app,
                                  TrimSuffix(title, BrowserSuffixes[i]))
                 IN  (/\ HasSuffix(title, BrowserSuffixes[i])
                      /\ k \in DOMAIN urls
                      /\ ~Expired(urls[k], now, TTL))
                         => lookup'.res = Hit(urls[k])]_vars

\* C21: for an event whose title is empty or whose application is not one of
\* the title parser's browsers, extractDomainFromTitle returns nil whatever
\* the other argument is, and the event carries no title-parsed URL.
C21_AbsentWithoutTitleOrBrowser ==
    (event.title = <<>> \/ ~IsBrowser(event.application, TitleBrowsers))
        => /\ ExtractDomainFromTitle(event.title, event.application) = {<<>>}
           /\ event.url.source # "title"

\* An event for a browser window without a title has been built.
C21_Witness ==
    /\ event.title = <<>>
    /\ IsBrowser(event.application, TitleBrowsers)
    /\ event.url = NoURL

\* C22: on the Linux and macOS builds main never reaches the running state,
\* and the error NewPlatform hands it is an UnsupportedPlatformError.
C22_TypedErrorAtStartup ==
    boot.goos \in {"linux", "darwin"}
        => /\ boot.pc # "running"
           /\ boot.pc \in {"platform", "exit1"}
                  => boot.err = UnsupportedPlatformError

\* C23: SendBatch's answer is a function of the POST's outcome: nil for a
\* 2xx status, bad-request for 400, auth for 401 and 403, rate-limit for 429,
\* and backend for every other status and for a POST without a response.
C23_KindOfOutcome ==
    lastOp.op = "SendBatch"
        => lastOp.err =
               (IF lastOp.status = NoResponse THEN "backend"
                ELSE IF lastOp.status \in 200..299 THEN "nil"
                ELSE IF lastOp.status = 400 THEN "bad_request"
                ELSE IF lastOp.status \in {401, 403} THEN "auth"
                ELSE IF lastOp.status = 429 THEN "rate_limit"
                ELSE "backend")

\* What a drain cycle's second half does to the table: after an accepted send
\* the rows of the dequeued ids are gone and every other row is as it was;
\* after a failed send every row is still there, those of the dequeued ids
\* with retry_count one higher and last_attempt at now, the others as they
\* were.
C24_SendFrame ==
    (drain.pc = "send" /\ lastOp'.op = "send")
        => LET ids == Range(drain.ids)
           IN  /\ Len(drain.ids) <= DrainLimit
               /\ \A r \in pending : r.id \in ids => r.dev = DeviceID
               /\ IF lastOp'.err = "nil"
                  THEN pending' = {r \in pending : r.id \notin ids}
                  ELSE /\ {r.id : r \in pending'} = {r.id : r \in pending}
                       /\ Cardinality(pending') = Cardinality(pending)
                       /\ \A r \in pending :
                              IF r.id \in ids
                              THEN [r EXCEPT !.retry = r.retry + 1,
                                             !.last = now] \in pending'
                              ELSE r \in pending'

Chain(t) == [k \in 1..Len(lk.stack[t]) |-> lk.stack[t][k].f]

\* C25: a goroutine that is at a call (of a callback, or of the next
\* component) holds no mutex, and no set of goroutines wait for one another:
\* the chain from a window change down to onBatchReady never blocks on a
\* mutex its own goroutine holds, and no reachable state is a deadlock.
C25_CallbacksAfterUnlock ==
    /\ \A t \in LockThreads :
          Running(t) /\ Instr(t)[1] \in {"call", "maycall"} => Held(t) = {}
    /\ \A D \in SUBSET LockThreads :
          D = {} \/ \E t \in D : Blockers(t) \cap D = {}

C25_Witness ==
    /\ Chain("poll") = <<"pollLoop", "checkWindow", "onWindowChange",
                         "RecordActivity", "setState", "onActivityStateChange",
                         "createEvent", "AddEvent", "onBatchReady">>
    /\ \E t \in LockThreads : Blockers(t) # {}

C28_EarlierBatchFirst ==
    [][lastOp'.op = "dequeue" =>
          /\ \A i, j \in 1..Len(drain'.ids) :
                i < j => \A q, r \in pending :
                            q.id = drain'.ids[i] /\ r.id = drain'.ids[j]
                                => q.created <= r.created
          /\ \A q, r \in pending :
                (/\ q.dev = DeviceID /\ r.dev = DeviceID
                 /\ Unmarshals(q.data)
                 /\ q.id < r.id
                 /\ \E j \in 1..Len(drain'.ids) : drain'.ids[j] = r.id)
                    => \E i \in 1..Len(drain'.ids) :
                          /\ drain'.ids[i] = q.id
                          /\ \A j \in 1..Len(drain'.ids) :
                                drain'.ids[j] = r.id => i < j]_vars

\* C29: each hook is installed at most once and no handle is passed to
\* UnhookWindowsHookEx twice; once StopActivityMonitoring has returned no
\* hook is installed, and after a start that succeeded each of the two
\* handles has been uninstalled exactly once, however often Stop is called;
\* when StartActivityMonitoring has returned an error no hook is installed.
C29_HooksOnce ==
    /\ \A i, j \in 1..Len(probe.installs) :
          probe.installs[i] = probe.installs[j] => i = j
    /\ \A i, j \in 1..Len(probe.unhooks) :
          probe.unhooks[i] = probe.unhooks[j] => i = j
    /\ \A i \in 1..Len(probe.unhooks) : probe.unhooks[i] # 0
    /\ probe.stops >= 1 =>
          /\ probe.installed = {}
          /\ Len(probe.unhooks) = Len(probe.installs)
    /\ probe.start = "error" => probe.installed = {}

\* StopActivityMonitoring has returned twice after a start that installed
\* both hooks.
C29_Witness ==
    /\ probe.stops = 2
    /\ probe.start = "ok"
    /\ probe.installs = <<"mouse", "keyboard">>
    /\ Len(probe.unhooks) = 2

\* C30: a hook procedure reads p.stopped and p.activityCallback while it
\* holds p.mu and releases it with the read; it calls the callback only
\* after that, without the mutex, and never when it read stopped set or the
\* callback nil; and every execution ends with CallNextHookEx, whether it
\* called the callback or not.
C30_ReadLockedThenChain ==
    [][/\ hk.pc = "read" /\ hk'.pc # "read" =>
            /\ probe.mu = "hook"
            /\ hk'.stopped = probe.stopped
            /\ hk'.callback = probe.activityCallback
            /\ probe'.mu = ""
            /\ probe'.sunk = probe.sunk
       /\ probe'.sunk # probe.sunk =>
            /\ hk.pc = "decide"
            /\ probe.mu # "hook"
            /\ ~hk.stopped
            /\ hk.callback # "nil"
            /\ probe'.sunk = probe.sunk + 1
       /\ hk.pc # "idle" /\ hk'.pc = "idle" =>
            hk.pc = "chain" /\ probe'.chained = probe.chained + 1
       /\ hk'.pc = "idle" => probe'.chained = probe'.entered]_vars

\* One procedure has called the callback; the next one entered before
\* StopActivityMonitoring, read stopped set after it, and chained without
\* calling the callback.
C30_Witness ==
    /\ hk.pc = "idle"
    /\ hk.stopped
    /\ hk.nCode >= 0
    /\ hk.wParam \in {"WM_MOUSEMOVE", "WM_KEYDOWN"}
    /\ ~hk.dispatched
    /\ probe.sunk = 1
    /\ probe.chained = 2

\* C31: a POST to /api/v1/url-update is answered 400 and leaves the URL store
\* as it was when the body is not valid JSON, when application or url is
\* empty, when application contains no browser name or when url has neither
\* the http:// nor the https:// prefix; every other request is answered 200
\* and writes the one entry normalised application + ":" + title -> url.
C31_RejectOrStore ==
    [][reply'.n # reply.n =>
         LET body == reply'.body
         IN  IF \/ ~ValidJSON(body)
                \/ body.application = <<>> \/ body.url = <<>>
                \/ ~IsBrowser(body.application, HandlerBrowsers)
                \/ /\ ~HasPrefix(body.url, <<"h", "t", "t", "p", ":", "/", "/">>)
                   /\ ~HasPrefix(body.url, <<"h", "t", "t", "p", "s", ":", "/", "/">>)
             THEN reply'.status = 400 /\ urls' = urls
             ELSE /\ reply'.status = 200
                  /\ \E napp \in NormalizeApplicationName(body.application) :
                         urls' = Store(urls, MakeKey(napp, body.title),
                                       body.url, now)]_vars

\* C32: the title parser is a function of (title, application): when
\* createEvent builds, without an answer of the URL store, an event for the
\* title and application of the event built before it, the parser gives it
\* the same URL, also for a title one part of which contains two keys of the
\* known-site dictionary.
C32_ParserIsFunction ==
    [][(/\ event # NoEvent
        /\ event'.application = event.application
        /\ event'.title = event.title
        /\ event.url.source # "extension"
        /\ event'.url.source # "extension")
       => event'.url = event.url]_vars

\* C33: the offline state is never reached: the activity tracker's state, the
\* orchestrator's state (which createEvent copies into the status of a window
\* event), the state a goroutine carries to setState and on to an event, and
\* the status of every state-change event added to the collector are each
\* one of active, idle and away.
C33_NeverOffline ==
    LET live == {StateActive, StateIdle, StateAway}
    IN  /\ at.currentState \in live
        /\ ts.currentState \in live
        /\ \A t \in Threads : loc[t].st \in live \cup {""}
        /\ \A k \in 1..Len(hist.states) : hist.states[k] \in live

C33_Witness ==
    /\ Len(hist.states) = 3
    /\ hist.states[1] = StateIdle
    /\ hist.states[2] = StateAway
    /\ hist.states[3] = StateActive
    /\ at.currentState = StateActive
    /\ ts.currentState = StateActive

\* C34: when no goroutine is inside setState or in the callback chain that
\* setState started, the orchestrator's currentState equals the activity
\* tracker's currentState (the orchestrator applies the tracker's
\* transitions in the order in which the tracker committed them).
C34_OrchestratorFollowsTracker ==
    (\A t \in Threads :
        pc[t] \notin {"ss1", "ss2", "os", "ce1", "ce2", "ce3", "ce_cb", "ce4"})
    => ts.currentState = at.currentState

\* C35: whenever the tracker's state is set to idle or away, the time since
\* lastActivity is at least the idle threshold at the moment of the write,
\* whatever handleActivityEvent or RecordActivity did between checkState's
\* reading of lastActivity and setState's write.
C35_NoStaleIdle ==
    [][(/\ at'.currentState # at.currentState
        /\ at'.currentState \in {StateIdle, StateAway})
       => now - at.lastActivity >= at.idleThreshold]_vars

\* The second half of a drain cycle: an accepted send deletes only records
\* whose id and event the batch carried; a failed send deletes none and
\* leaves the id, payload, device id and created_at of every record it had
\* dequeued as they were.
C36_SendFrame ==
    (drain.pc = "send" /\ lastOp'.op = "send")
        => IF lastOp'.err = "nil"
           THEN \A r \in pending :
                    (\A q \in pending' : q.id # r.id)
                    => \E i \in 1..Len(drain.ids) :
                           /\ drain.ids[i] = r.id
                           /\ Unmarshals(r.data)
                           /\ Unmarshal(r.data) = drain.events[i]
           ELSE \A r \in pending :
                    \E q \in pending' :
                        /\ q.id = r.id
                        /\ r.id \in Range(drain.ids)
                           => /\ q.data = r.data
                              /\ q.dev = r.dev
                              /\ q.created = r.created

\* C36 (as stated): the drain worker deletes a record only after the
\* SendBatch that carried it has returned success: the Dequeue of a cycle
\* deletes nothing, an accepted send deletes only what it carried, and after
\* a failed send every dequeued record is in the table with its id, payload,
\* device id and created_at unchanged.
C36_RemovedOnlyIfSent ==
    [][/\ (drain.pc = "idle" /\ lastOp'.op = "dequeue")
           => \A r \in pending : \E q \in pending' : q.id = r.id
       /\ C36_SendFrame]_vars

\* C36, amended: as stated for every record that deserialises; the Dequeue
\* of a cycle deletes, unsent, the records of the device among those it
\* selected whose payload does not deserialise, and no other.
C36_RemovedOnlyIfSentOrUndecodable ==
    [][/\ (drain.pc = "idle" /\ lastOp'.op = "dequeue")
           => \A r \in pending :
                  \/ \E q \in pending' : q = r
                  \/ r.dev = DeviceID /\ ~Unmarshals(r.data)
       /\ C36_SendFrame]_vars

\* C36's case: a record that was enqueued after a failed direct send has
\* been carried by a failed drain send and is still in the table, unsent.
C36_Witness ==
    /\ lastOp.op = "send"
    /\ lastOp.err # "nil"
    /\ \E r \in pending :
           /\ r.dev = DeviceID
           /\ Unmarshals(r.data)
           /\ Unmarshal(r.data) \in sunk \ acked
           /\ r.retry = 1

\* This step is a failed drain send whose batch carried the record id.
C37_FailedSendOf(id) ==
    /\ drain.pc = "send"
    /\ lastOp'.op = "send"
    /\ lastOp'.err # "nil"
    /\ id \in Range(drain.ids)

\* A Cleanup step deletes only records with retry_count above the limit.
C37_CleanupAboveLimit ==
    lastOp'.op = "cleanup"
        => \A r \in pending :
               (\A q \in pending' : q.id # r.id) => r.retry > CleanupRetryLimit

\* C37 (as stated): a record enters pending_events with retry_count 0, and
\* every step changes retry_count by exactly the number of failed drain
\* sends it makes that carried the record (so the count is never negative,
\* never decreases and equals the number of such sends); Cleanup deletes a
\* record only with retry_count > 10, that is after 11 failed drain cycles.
C37_RetryCountsFailedSends ==
    [][/\ \A q \in pending' :
              /\ q.retry >= 0
              /\ \A r \in pending :
                     r.id = q.id
                     => q.retry = r.retry
                                  + (IF C37_FailedSendOf(q.id) THEN 1 ELSE 0)
              /\ (\A r \in pending : r.id # q.id) => q.retry = 0
       /\ C37_CleanupAboveLimit]_vars

\* C37, amended: retry_count starts at 0, never decreases, and grows only in
\* a failed drain send that carried the record, by 1, and not at all if the
\* UPDATE of that cycle failed: it is at most the number of failed drain
\* sends that carried the record.
C37_RetryCountsAtMostFailedSends ==
    [][/\ \A q \in pending' :
              /\ q.retry >= 0
              /\ \A r \in pending :
                     r.id = q.id
                     => \/ q.retry = r.retry
                        \/ q.retry = r.retry + 1 /\ C37_FailedSendOf(q.id)
              /\ (\A r \in pending : r.id # q.id) => q.retry = 0
       /\ C37_CleanupAboveLimit]_vars

\* C37's case: the record an earlier run left with retry_count 10 has been
\* deleted by Cleanup after one more failed drain send, while a record
\* enqueued in this run after a failed direct send stands at 0.
C37_Witness ==
    /\ lastOp.op = "cleanup"
    /\ drainFails = 1
    /\ Unmarshal(OldRow.data) \in cleaned
    /\ \E r \in pending :
           /\ r.retry = 0
           /\ Unmarshals(r.data)
           /\ Unmarshal(r.data) \in sunk \ acked

\* C38: once ActivityTracker.Stop has returned (its wg.Wait and
\* StopActivityMonitoring are done), no step changes the tracker's state and
\* no step invokes at.onStateChange, whatever RecordActivity and hook events
\* in flight do.
C38_QuietAfterStop ==
    [][(\E k \in 1..Len(hist.stopLog) : hist.stopLog[k] = "unhook")
       => /\ at'.currentState = at.currentState
          /\ \A t \in Threads : pc'[t] = "os" => pc[t] = "os"]_vars

\* The copies of the buffer that goroutines hold between a critical section
\* and the callback.
C39_Taken == {client[c].taken : c \in Clients} \cup {loop.taken}

\* C39: whenever ec.mu is free the buffer holds fewer than batchSize events,
\* whatever the interleaving of AddEvent, Flush, the ticker's flushes and
\* Stop; every batch handed to the callback is non-empty; and a batch lists
\* its events in the order they were appended: the buffer only grows at its
\* end or is emptied, a copy taken out of it is the whole buffer at that
\* moment (with the event just appended, for AddEvent), and the callback
\* receives such a copy unchanged.
C39_BufferBelowBatchSize ==
    /\ [](/\ Len(ecEvents) < BatchSize
          /\ \A i \in 1..Len(batches) : batches[i] # <<>>)
    /\ [][/\ ecEvents' # ecEvents
               => \/ \E c \in Clients :
                        /\ client[c].pc = "add"
                        /\ ecEvents' = Append(ecEvents, client[c].ev)
                  \/ /\ ecEvents' = <<>>
                     /\ \/ ecEvents \in C39_Taken'
                        \/ \E c \in Clients :
                              /\ client[c].pc = "add"
                              /\ client'[c].taken
                                    = Append(ecEvents, client[c].ev)
          /\ \A c \in Clients :
                client'[c].taken \notin {client[c].taken, <<>>}
                   => client'[c].taken
                         \in {ecEvents, Append(ecEvents, client[c].ev)}
          /\ loop'.taken \notin {loop.taken, <<>>} => loop'.taken = ecEvents
          /\ batches' # batches
               => \E b \in C39_Taken :
                     b # <<>> /\ batches' = Append(batches, b)]_vars

\* The three ways a batch leaves the collector have all happened: a batch of
\* batchSize events taken by AddEvent, a shorter one taken by a flush, and
\* the residue taken by Stop, while the buffer again holds batchSize - 1
\* events or Stop has emptied it.
C39_Witness ==
    /\ Len(batches) >= 2
    /\ \E i \in 1..Len(batches) : Len(batches[i]) = BatchSize
    /\ \E i \in 1..Len(batches) : Len(batches[i]) < BatchSize
    /\ stopDone

\* C40: a GetByApplicationAndTitle for a browser with a title that
\* normalizeTitle reduces to the empty string returns a miss, or the entry
\* stored for that browser under a title that also reduces to the empty
\* string; it never returns an entry stored under a title that does not.
C40_EmptyTitleMatchesOnlyEmpty ==
    [][(/\ lookup' # lookup
        /\ lookup'.pc = "done"
        /\ lookup'.op = "GetByApplicationAndTitle"
        /\ lookup'.app \in BrowserTags
        /\ NormalizeTitle(lookup'.title) = <<>>
        /\ lookup'.res.found)
          => LET pre == lookup'.app \o <<":">>
             IN  \E k \in DOMAIN urls :
                     /\ HasPrefix(k, pre)
                     /\ NormalizeTitle(TrimPrefix(k, pre)) = <<>>
                     /\ lookup'.res = Hit(urls[k])]_vars

====
